---- MODULE Spec2Model ----
(***************************************************************************)
(* Model of the Arbitrum transaction executor of lst-arb                   *)
(* (bot/src/executor/mod.rs) together with the simulator it calls          *)
(* (bot/src/simulator/mod.rs) and the dispatch loop that drives it         *)
(* (bot/src/main.rs).                                                      *)
(*                                                                         *)
(* Every await point of Executor::execute is a position (pc) of the task   *)
(* that runs it; the answers of the node (gas price, eth_call, gas         *)
(* estimate, send_raw_transaction, receipt) are inputs chosen with \E.     *)
(*                                                                         *)
(* Beside the executor: the pending-TX checker task of main.rs with        *)
(* Executor::check_pending, Executor::resync_nonce, and the tiered         *)
(* scheduler (bot/src/scheduler.rs) with its Tier 3 task and its demotion  *)
(* checker.                                                                *)
(***************************************************************************)
EXTENDS Integers, Sequences, FiniteSets, TLC

\* ---------------------------------------------------------------- constants

\* executor/mod.rs:29
MAX_RESUBMIT_ATTEMPTS == 3

\* executor/mod.rs:32
GAS_BUFFER_PERCENT == 120

\* executor/mod.rs:35
STUCK_TX_TIMEOUT_SECS == 120

\* scheduler.rs:28, PROMOTION_THRESHOLD = 0.005 as the fraction
\* PROMOTION_THRESHOLD_NUM / PROMOTION_THRESHOLD_DEN
PROMOTION_THRESHOLD_NUM == 5

PROMOTION_THRESHOLD_DEN == 1000

\* scheduler.rs:31
PROMOTION_DURATION_SECS == 3600

\* simulator/mod.rs:86, the estimate used when eth_estimateGas fails
DEFAULT_GAS_ESTIMATE == 500000

\* Executor.max_gas_price (executor/mod.rs:43), in the unit of GasPrices
max_gas_price == 2

\* ------------------------------------------------------------------- bounds

\* number of execute calls the dispatch loop makes
MaxExecs == 2

\* largest transaction count the chain reports at start-up
MaxInitNonce == 1

\* number of tasks that may call execute
MaxTasks == 2

Tasks == 1..MaxTasks

\* number of resync_nonce calls
MaxResyncs == 1

\* number of steps the clock makes
MaxTicks == 3

\* seconds the clock advances in one step
TickSecs == 60

\* seconds by which the age of a promotion advances in one step
PromotionTickSecs == 3600

\* largest volume rank a pool is created with
MaxRank == 25

\* the age from which on promotions are not told apart: every age above
\* PROMOTION_DURATION_SECS passes the same test
PromotionAgeCap == PROMOTION_DURATION_SECS + PromotionTickSecs

\* -------------------------------------------------------------- input sets

\* gas prices the sequencer may report: at and above max_gas_price
GasPrices == {max_gas_price, max_gas_price + 1}

\* expected_profit of the opportunities handed to execute
ExpectedProfits == {6, 1000}

\* what the contract's dry-run entry point (simulateArb) would report for
\* the opportunity on the latest state
DryRunProfits == {850, 1000}

\* answers of eth_estimateGas: Ok(gas) or Err
GasEstimates == {[ok |-> TRUE, gas |-> 3], [ok |-> FALSE, gas |-> 0]}

\* transaction hashes the node may answer a send_raw_transaction with
Hashes == {"h1", "h2"}

None == "None"

\* Debug-formatted errors of send_raw_transaction
SubmitErrors == {"nonce too low",
                 "replacement transaction underpriced",
                 "insufficient funds for gas * price + value",
                 "network error"}

\* str::contains for the messages of SubmitErrors and the patterns the
\* executor looks for
Contains(msg, pat) ==
    CASE pat = "nonce too low" -> msg = "nonce too low"
      [] pat = "replacement transaction underpriced"
             -> msg = "replacement transaction underpriced"
      [] pat = "insufficient funds"
             -> msg = "insufficient funds for gas * price + value"
      [] OTHER -> FALSE

\* outcomes of get_transaction_receipt: Ok(Some(r)) with r.status = Some(1),
\* Ok(Some(r)) with any other status, Ok(None), Err
ReceiptOutcomes == {"status1", "status0", "no_receipt", "error"}

\* answers of get_transaction_count(address, None): Ok(count) or Err
ChainCounts == {[ok |-> TRUE, count |-> 0], [ok |-> TRUE, count |-> 4],
                [ok |-> FALSE, count |-> 0]}

\* pool addresses and LST token addresses known to the scheduler
Addresses == {"a1", "a2"}

Tokens == {"t1", "t2"}

\* volume ranks of the pools handed to add_pools: the last rank of Tier 1,
\* the last rank of Tier 2 and the first rank of Tier 3
Ranks == {5, 20, 21}

\* the buy amounts one fetch_all_quotes may report for a token, one per
\* venue
QuoteSets == {{0}, {0, 1000}, {1005}, {1000, 1006}}

\* the token was not among those of the fetch
NotFetched == {-1}

VARIABLES
    nonce,            \* Executor.nonce
    pending_txs,      \* Executor.pending_txs
    callers,          \* tasks that call execute
    execs,            \* execute calls started so far
    pc,               \* position of each task in execute
    opportunity,      \* argument of execute
    dry_run_profit,   \* what simulateArb would return for the opportunity
    gas_price,        \* local gas_price of execute
    sim_result,       \* local sim_result of execute
    tx_nonce,         \* local nonce of execute
    signed_tx,        \* local signed_tx of execute
    attempt,          \* local attempt of submit_with_resubmission
    last_hash,        \* local last_hash of submit_with_resubmission
    result,           \* value returned by execute
    sends,            \* send_raw_transaction calls of the current execute
    tracked,          \* PendingTx pushed by the current execute
    nonce_at_call,    \* Executor.nonce when the current execute was called
    pending_at_call,  \* Executor.pending_txs when execute was called
    issued,           \* nonces handed out by get_and_increment_nonce
    resync_calls,     \* resync_nonce calls started so far
    last_resync,      \* the last resync_nonce call that returned
    now,              \* Instant::now(), in seconds
    tracker_pc,       \* position of the pending-TX checker task
    poll_index,       \* position of check_pending in pending_txs.iter()
    completed_hashes, \* local completed_hashes of check_pending
    results,          \* local results of check_pending
    poll_log,         \* receipt queries of the current check_pending
    recorded,         \* results the checker task handed to the monitor
    retained,         \* Executor.pending_txs as the last retain left it
    pools,            \* Scheduler.pools, the map from address to TieredPool
    tokens,           \* Scheduler.tokens
    lazy_pc,          \* position of the Tier 3 task
    tier3_tokens,     \* local tier3_tokens of the Tier 3 task
    sched_log,        \* the last step that wrote Scheduler.pools
    new_pool,         \* the value returned by the last TieredPool::new
    stream_pc,        \* position of the Tier 1 task
    tier1_pools,      \* local tier1_pools of the Tier 1 task (addresses)
    detector_log,     \* the last call of the trade sizer or of the detector
    rc_tokens,        \* RuntimeConfig.tokens, the list behind the RwLock
    rc_initial,       \* the list RuntimeConfig::new was given
    rc_lock,          \* the RwLock: its writer and its readers
    rc_pc,            \* position of each RuntimeConfig caller
    rc_snapshot,      \* the list the last get_tokens returned, and to whom
    rc_committed,     \* RuntimeConfig.tokens as the last finished write left it
    stats_lock,       \* the RwLock of Monitor.stats: its writer and its readers
    stats,            \* Monitor.stats
    monitor_pc,       \* position of each caller of the monitor
    monitor_calls,    \* calls of record_opportunity and record_execution so far
    logged,           \* the statistics the last log_summary wrote
    rpc_health,       \* RpcLoadBalancer.health, the map from url to RpcHealth
    rpc_clients,      \* the urls that have a client in RpcLoadBalancer.clients
    rpc_primary,      \* the url of the client in RpcLoadBalancer.primary
    rpc_pc,           \* position of the health-check task in `endpoints`
    rpc_checks,       \* health_check calls started so far
    rpc_log           \* the last probe of health_check and its answer

vars == <<nonce, pending_txs, callers, execs, pc, opportunity, dry_run_profit,
          gas_price, sim_result, tx_nonce, signed_tx, attempt, last_hash,
          result, sends, tracked, nonce_at_call, pending_at_call, issued,
          resync_calls, last_resync, now, tracker_pc, poll_index,
          completed_hashes, results, poll_log, recorded, retained, pools,
          tokens,
          lazy_pc, tier3_tokens, sched_log, new_pool, stream_pc,
          tier1_pools, detector_log, rc_tokens, rc_initial, rc_lock, rc_pc,
          rc_snapshot, rc_committed, stats_lock, stats, monitor_pc,
          monitor_calls, logged, rpc_health, rpc_clients, rpc_primary,
          rpc_pc, rpc_checks, rpc_log>>

\* the pending-TX checker task and its call of check_pending
tracker == <<tracker_pc, poll_index, completed_hashes, results, poll_log,
             recorded, retained>>

\* the scheduler and its tasks
\* the Tier 1 task
stream == <<stream_pc, tier1_pools>>

\* RuntimeConfig and its callers
runtime_config == <<rc_tokens, rc_initial, rc_lock, rc_pc, rc_snapshot,
                    rc_committed>>

\* the monitor and its callers
monitor == <<stats_lock, stats, monitor_pc, monitor_calls, logged>>

\* the RPC load balancer and its health-check task
load_balancer == <<rpc_health, rpc_clients, rpc_primary, rpc_pc, rpc_checks,
                   rpc_log>>

\* the parts of the bot beside executor, scheduler and detector
services == <<runtime_config, monitor, load_balancer>>

scheduler == <<pools, tokens, lazy_pc, tier3_tokens, sched_log, new_pool,
               stream, detector_log, services>>

\* what no step of execute touches
outside_execute == <<resync_calls, last_resync, now, tracker, scheduler>>

locals == <<opportunity, dry_run_profit, gas_price, sim_result, tx_nonce,
            signed_tx, attempt, last_hash>>

\* ----------------------------------------------------------------- values

Opportunity(profit) == [expected_profit |-> profit]

Submitted(h) == [tag |-> "Submitted", hash |-> h]

Confirmed(h, profit) == [tag |-> "Confirmed", hash |-> h, profit |-> profit]

Reverted(h) ==
    [tag |-> "Reverted", hash |-> h, reason |-> "Transaction reverted on-chain"]

Failed(reason) == [tag |-> "Failed", reason |-> reason]

\* execute returned Err(..) through a `?`
ExecError == [tag |-> "Err"]

NoResult == [tag |-> "None"]

PendingTx(h, opp, gp) ==
    [hash |-> h, opportunity |-> opp, submitted_at |-> now, gas_price |-> gp,
     resubmit_count |-> 0]

\* Option<T>
Some(v) == <<v>>

NoneOpt == <<>>

\* ScanTier
Tier1Stream == "Tier1Stream"

Tier2Patrol == "Tier2Patrol"

Tier3Lazy == "Tier3Lazy"

\* --------------------------------------------------------------- simulator

\* Simulator::simulate: call_ok is the outcome of eth_call, estimate the
\* answer of eth_estimateGas
simulate(opp, gp, call_ok, estimate) ==
    IF call_ok
    THEN LET gas_estimate == IF estimate.ok THEN estimate.gas
                                            ELSE DEFAULT_GAS_ESTIMATE
             gas_cost == gas_estimate * gp
             expected_profit == opp.expected_profit
             net_profit == IF expected_profit > gas_cost
                           THEN expected_profit - gas_cost ELSE 0
         IN [success |-> net_profit > 0,
             expected_profit |-> expected_profit,
             gas_estimate |-> gas_estimate,
             gas_cost_wei |-> gas_cost,
             net_profit |-> net_profit,
             revert_reason |-> None]
    ELSE [success |-> FALSE,
          expected_profit |-> 0,
          gas_estimate |-> 0,
          gas_cost_wei |-> 0,
          net_profit |-> 0,
          revert_reason |-> "revert"]

\* Simulator::build_transaction followed by sign and rlp_signed: the signed
\* bytes are a function of the transaction fields
build_transaction(opp, min_profit, gas_limit, max_fee, priority_fee, n) ==
    [opportunity |-> opp, min_profit |-> min_profit, gas |-> gas_limit,
     max_fee_per_gas |-> max_fee, max_priority_fee_per_gas |-> priority_fee,
     nonce |-> n]

\* no transaction built yet
NoTx == build_transaction(Opportunity(0), 0, 0, 0, 0, -1)

NoSim == [success |-> FALSE, expected_profit |-> 0, gas_estimate |-> 0,
          gas_cost_wei |-> 0, net_profit |-> 0, revert_reason |-> None]

\* ---------------------------------------------------------------- executor

\* variant: the counter is read but not advanced
get_and_increment_nonce_load(n) == [issued |-> n, stored |-> n]

\* get_and_increment_nonce: fetch_add(1) returns the old value and stores
\* the old value plus one
get_and_increment_nonce(n) == [issued |-> n, stored |-> n + 1]

\* min_profit passed to the contract: 80% of the simulated net profit
min_profit_of(net_profit) == (net_profit * 80) \div 100

\* gas limit: the estimate with the 20% buffer
gas_limit_of(gas_estimate) == (gas_estimate * GAS_BUFFER_PERCENT) \div 100

\* A step of submit_with_resubmission decides one of: return a result
\* (ret), optionally after track_pending (track = the hash) or after
\* nonce.fetch_sub(1) (dec); or go on with the loop (ret = NoResult).
Decision(ret, track, dec) == [ret |-> ret, track |-> track, dec |-> dec]

GoOn == Decision(NoResult, None, FALSE)

\* variant: "nonce too low" is treated as a retryable error
on_submit_error_retry_nonce_too_low(msg, lh) ==
    IF Contains(msg, "replacement transaction underpriced") /\ lh # None
    THEN Decision(Submitted(lh), lh, FALSE)
    ELSE IF Contains(msg, "insufficient funds")
    THEN Decision(Failed("Insufficient funds for transaction"), None, FALSE)
    ELSE GoOn

\* variant: "insufficient funds" is treated as a retryable error
on_submit_error_retry_insufficient_funds(msg, lh) ==
    IF Contains(msg, "nonce too low")
    THEN IF lh # None
         THEN Decision(Submitted(lh), None, FALSE)
         ELSE Decision(Failed("Nonce too low - transaction may have been included"),
                       None, FALSE)
    ELSE IF Contains(msg, "replacement transaction underpriced") /\ lh # None
    THEN Decision(Submitted(lh), lh, FALSE)
    ELSE GoOn

\* the Err(e) arm of the match on send_raw_transaction
on_submit_error(msg, lh) ==
    IF Contains(msg, "nonce too low")
    THEN IF lh # None
         THEN Decision(Submitted(lh), None, FALSE)
         ELSE Decision(Failed("Nonce too low - transaction may have been included"),
                       None, FALSE)
    ELSE IF Contains(msg, "replacement transaction underpriced") /\ lh # None
    THEN Decision(Submitted(lh), lh, FALSE)
    ELSE IF Contains(msg, "insufficient funds")
    THEN Decision(Failed("Insufficient funds for transaction"), None, FALSE)
    ELSE GoOn

\* variant: the status of the receipt is not looked at
on_receipt_any_status(outcome, hash, opp) ==
    IF outcome \in {"status1", "status0"}
    THEN Decision(Confirmed(hash, opp.expected_profit), None, FALSE)
    ELSE GoOn

\* the match on get_transaction_receipt(hash) after the wait
on_receipt(outcome, hash, opp) ==
    IF outcome = "status1" THEN Decision(Confirmed(hash, opp.expected_profit),
                                         None, FALSE)
    ELSE IF outcome = "status0" THEN Decision(Reverted(hash), None, FALSE)
    ELSE GoOn

\* variant: off by one, a fourth attempt is made
attempts_exhausted_off_by_one(att) == att > MAX_RESUBMIT_ATTEMPTS

\* `if attempt >= MAX_RESUBMIT_ATTEMPTS { break; }`
attempts_exhausted(att) == att >= MAX_RESUBMIT_ATTEMPTS

\* variant: the hash is returned without track_pending
after_attempts_untracked(lh) ==
    IF lh # None
    THEN Decision(Submitted(lh), None, FALSE)
    ELSE Decision(Failed("Failed to submit after 3 attempts"), None, TRUE)

\* the code after the loop
after_attempts(lh) ==
    IF lh # None
    THEN Decision(Submitted(lh), lh, FALSE)
    ELSE Decision(Failed("Failed to submit after 3 attempts"), None, TRUE)

\* variant: the limit is one unit higher
gas_price_too_high_lenient(gp) == gp > max_gas_price + 1

\* `if gas_price > self.max_gas_price`
gas_price_too_high(gp) == gp > max_gas_price

\* variant: the counter is never moved backwards
resync_nonce_forward_only(n, answer) ==
    IF answer.ok /\ answer.count > n THEN answer.count ELSE n

\* resync_nonce: on Ok(count) the counter is swapped for the count, on Err
\* the `?` returns before the store
resync_nonce(n, answer) == IF answer.ok THEN answer.count ELSE n

\* no resync_nonce call has returned yet
NoResync == [status |-> "none", count |-> 0, before |-> 0, at |-> 0]

\* what check_pending does with one PendingTx: push its hash to
\* completed_hashes (complete) and a result to results, or neither
PollDecision(complete, res) == [complete |-> complete, result |-> res]

\* variant: a reverted transaction is reported but stays in the list
check_receipt_keep_reverted(outcome, tx, elapsed) ==
    IF outcome = "status1"
    THEN PollDecision(TRUE, Confirmed(tx.hash, tx.opportunity.expected_profit))
    ELSE IF outcome = "status0"
    THEN PollDecision(FALSE, Reverted(tx.hash))
    ELSE IF outcome = "no_receipt" /\ elapsed > STUCK_TX_TIMEOUT_SECS
    THEN PollDecision(TRUE, Failed("Transaction stuck"))
    ELSE PollDecision(FALSE, NoResult)

\* the match on get_transaction_receipt(pending.hash) in check_pending: the
\* Err arm only logs
check_receipt(outcome, tx, elapsed) ==
    IF outcome = "status1"
    THEN PollDecision(TRUE, Confirmed(tx.hash, tx.opportunity.expected_profit))
    ELSE IF outcome = "status0"
    THEN PollDecision(TRUE, Reverted(tx.hash))
    ELSE IF outcome = "no_receipt" /\ elapsed > STUCK_TX_TIMEOUT_SECS
    THEN PollDecision(TRUE, Failed("Transaction stuck"))
    ELSE PollDecision(FALSE, NoResult)

\* the elements of a sequence
Range(seq) == {seq[i] : i \in 1..Len(seq)}

\* variant: the list is cleared as soon as one hash has completed
retain_clear_on_completion(txs, hashes) ==
    SelectSeq(txs, LAMBDA tx : hashes = <<>>)

\* pending_txs.retain(|tx| !completed_hashes.contains(&tx.hash))
retain(txs, hashes) == SelectSeq(txs, LAMBDA tx : tx.hash \notin Range(hashes))

\* --------------------------------------------------------------- scheduler

\* variant: the ranges start one rank later
tier_from_rank_shifted(rank) ==
    IF rank \in 2..6 THEN Tier1Stream
    ELSE IF rank \in 7..21 THEN Tier2Patrol
    ELSE Tier3Lazy

\* TieredPool::tier_from_rank
tier_from_rank(rank) ==
    IF rank \in 1..5 THEN Tier1Stream
    ELSE IF rank \in 6..20 THEN Tier2Patrol
    ELSE Tier3Lazy

\* TieredPool::new (token_name is left out: it is only logged)
TieredPool_new(address, token_address, volume_rank) ==
    [address |-> address,
     token_address |-> token_address,
     tier |-> tier_from_rank(volume_rank),
     volume_rank |-> volume_rank,
     last_price |-> NoneOpt,
     promotion_time |-> NoneOpt,
     original_tier |-> NoneOpt]

\* variant: a pool that is in Tier 1 already is promoted again
promote_to_tier1_unguarded(pool) ==
    [pool EXCEPT !.original_tier = Some(pool.tier),
                 !.tier = Tier1Stream,
                 !.promotion_time = Some(0)]

\* variant: a pool that is in Tier 1 already gets a new promotion time
promote_to_tier1_restamp(pool) ==
    IF pool.tier # Tier1Stream
    THEN [pool EXCEPT !.original_tier = Some(pool.tier),
                      !.tier = Tier1Stream,
                      !.promotion_time = Some(0)]
    ELSE [pool EXCEPT !.promotion_time = Some(0)]

\* TieredPool::promote_to_tier1; promotion_time holds the time elapsed
\* since Instant::now() was taken
promote_to_tier1(pool) ==
    IF pool.tier # Tier1Stream
    THEN [pool EXCEPT !.original_tier = Some(pool.tier),
                      !.tier = Tier1Stream,
                      !.promotion_time = Some(0)]
    ELSE pool

\* variant: a promotion of exactly PROMOTION_DURATION_SECS is over
promotion_expired_at_duration(elapsed) == elapsed >= PROMOTION_DURATION_SECS

\* `promotion_time.elapsed() > Duration::from_secs(PROMOTION_DURATION_SECS)`
promotion_expired(elapsed) == elapsed > PROMOTION_DURATION_SECS

\* variant: the tier is restored but the promotion metadata is kept
check_demotion_keep_metadata(pool) ==
    IF /\ pool.promotion_time # NoneOpt
       /\ promotion_expired(pool.promotion_time[1])
       /\ pool.original_tier # NoneOpt
    THEN [pool |-> [pool EXCEPT !.tier = pool.original_tier[1]],
          demoted |-> TRUE]
    ELSE [pool |-> pool, demoted |-> FALSE]

\* TieredPool::check_demotion: the pool afterwards and the value returned
check_demotion(pool) ==
    IF /\ pool.promotion_time # NoneOpt
       /\ promotion_expired(pool.promotion_time[1])
       /\ pool.original_tier # NoneOpt
    THEN [pool |-> [pool EXCEPT !.tier = pool.original_tier[1],
                                !.original_tier = NoneOpt,
                                !.promotion_time = NoneOpt],
          demoted |-> TRUE]
    ELSE [pool |-> pool, demoted |-> FALSE]

\* |x|
Abs(x) == IF x < 0 THEN -x ELSE x

\* the largest element of a non-empty set of numbers
Max(S) == CHOOSE x \in S : \A y \in S : y <= x

\* the best buy price of a TokenQuotes: the largest positive buy_amount
current_price(quotes) ==
    LET positive == {b \in quotes : b > 0}
    IN IF positive = {} THEN NoneOpt ELSE Some(Max(positive))

\* `calculate_price_change(last, current) > PROMOTION_THRESHOLD`, with the
\* quotient |new - old| / old compared as a fraction; the change is 0.0
\* when the old price is zero
price_change_exceeds_threshold(old_price, new_price) ==
    IF old_price = 0 THEN FALSE
    ELSE Abs(new_price - old_price) * PROMOTION_THRESHOLD_DEN
             > PROMOTION_THRESHOLD_NUM * old_price

\* check_promotions reaches `pool.promote_to_tier1()` for this pool and the
\* quotes of its token
calls_promote(pool, quotes) ==
    LET current == current_price(quotes)
    IN /\ current # NoneOpt
       /\ pool.last_price # NoneOpt
       /\ price_change_exceeds_threshold(pool.last_price[1], current[1])

\* the body of the loops of check_promotions for one pool and the quotes of
\* its token
check_promotion(pool, quotes) ==
    LET current == current_price(quotes)
    IN IF current = NoneOpt THEN pool
       ELSE LET promoted == IF calls_promote(pool, quotes)
                            THEN promote_to_tier1(pool)
                            ELSE pool
            IN [promoted EXCEPT !.last_price = current]

\* no token was fetched
NoQuotes == [t \in Tokens |-> NotFetched]

\* a step that wrote the pool map: the quotes check_promotions was given,
\* the addresses of the pools it called promote_to_tier1 on, the addresses
\* for which check_demotion returned true
SchedLog(op, quotes, promote_calls, demoted) ==
    [op |-> op, quotes |-> quotes, promote_calls |-> promote_calls,
     demoted |-> demoted]

\* ----------------------------------------------------------- executor steps

\* index in `issued` of the nonce handed to task p's current execute
IssueIndex(p) ==
    CHOOSE i \in 1..Len(issued) :
        /\ issued[i].task = p
        /\ \A j \in (i + 1)..Len(issued) : issued[j].task # p

\* carry out a decision that returns from execute
Apply(p, d) ==
    /\ pc' = [pc EXCEPT ![p] = "done"]
    /\ result' = [result EXCEPT ![p] = d.ret]
    /\ IF d.track # None
       THEN LET tx == PendingTx(d.track, opportunity[p], gas_price[p])
            IN /\ pending_txs' = Append(pending_txs, tx)
               /\ tracked' = [tracked EXCEPT ![p] = Append(@, tx)]
       ELSE UNCHANGED <<pending_txs, tracked>>
    /\ IF d.dec
       THEN /\ nonce' = nonce - 1
            /\ issued' = [issued EXCEPT ![IssueIndex(p)].decremented = TRUE]
       ELSE UNCHANGED <<nonce, issued>>

\* the end of one loop iteration: break and run the code after the loop,
\* or start the next attempt
EndOfAttempt(p, att, lh) ==
    IF attempts_exhausted(att)
    THEN Apply(p, after_attempts(lh))
    ELSE /\ pc' = [pc EXCEPT ![p] = "submit"]
         /\ UNCHANGED <<result, pending_txs, tracked, nonce, issued>>

\* the tasks of main.rs that hold the monitor: the dispatch loop (1), the
\* pending-TX checker (2) and the statistics task (3)
MonitorTasks == 1..3

MonIdle == [op |-> "idle"]

\* Monitor::new: Stats::default()
Monitor_new ==
    /\ stats_lock = [writer |-> 0, readers |-> {}]
    /\ stats = [opportunities_found |-> 0, txs_submitted |-> 0,
                txs_confirmed |-> 0, txs_reverted |-> 0,
                total_profit_wei |-> 0]
    /\ monitor_pc = [p \in MonitorTasks |-> MonIdle]
    /\ monitor_calls = 0
    /\ logged = NoneOpt

\* the RpcLoadBalancer as its constructor makes it, before
\* initialize_connections
RpcLoadBalancer_new ==
    /\ rpc_health = <<>>
    /\ rpc_clients = {}
    /\ rpc_primary = NoneOpt
    /\ rpc_pc = [at |-> "new"]
    /\ rpc_checks = 0
    /\ rpc_log = [op |-> "none"]

\* the tasks that call RuntimeConfig
RcTasks == {1, 2}

\* a task outside every RuntimeConfig method
RcIdle == [op |-> "idle"]

InitOutsideConfig ==
    /\ nonce \in 0..MaxInitNonce
    /\ pending_txs = <<>>
    /\ callers = {1}
    /\ execs = 0
    /\ pc = [p \in Tasks |-> "idle"]
    /\ opportunity = [p \in Tasks |-> Opportunity(0)]
    /\ dry_run_profit = [p \in Tasks |-> 0]
    /\ gas_price = [p \in Tasks |-> 0]
    /\ sim_result = [p \in Tasks |-> NoSim]
    /\ tx_nonce = [p \in Tasks |-> -1]
    /\ signed_tx = [p \in Tasks |-> NoTx]
    /\ attempt = [p \in Tasks |-> 0]
    /\ last_hash = [p \in Tasks |-> None]
    /\ result = [p \in Tasks |-> NoResult]
    /\ sends = [p \in Tasks |-> <<>>]
    /\ tracked = [p \in Tasks |-> <<>>]
    /\ nonce_at_call = [p \in Tasks |-> 0]
    /\ pending_at_call = [p \in Tasks |-> <<>>]
    /\ issued = <<>>
    /\ resync_calls = 0
    /\ last_resync = NoResync
    /\ now = 0
    /\ tracker_pc = "idle"
    /\ poll_index = 0
    /\ completed_hashes = <<>>
    /\ results = <<>>
    /\ poll_log = <<>>
    /\ recorded = <<>>
    /\ retained = <<>>
    /\ pools = <<>>
    /\ tokens = {}
    /\ lazy_pc = "idle"
    /\ tier3_tokens = {}
    /\ sched_log = SchedLog("none", NoQuotes, {}, {})
    /\ new_pool = NoneOpt
    /\ stream_pc = "snapshot"
    /\ tier1_pools = {}
    /\ detector_log = [op |-> "none"]
    /\ Monitor_new
    /\ RpcLoadBalancer_new

\* RuntimeConfig::new with the token list `initial_tokens`
RuntimeConfig_new(initial_tokens) ==
    /\ rc_tokens = initial_tokens
    /\ rc_initial = initial_tokens
    /\ rc_lock = [writer |-> 0, readers |-> {}]
    /\ rc_pc = [p \in RcTasks |-> RcIdle]
    /\ rc_snapshot = NoneOpt
    /\ rc_committed = initial_tokens

Init ==
    /\ InitOutsideConfig
    /\ RuntimeConfig_new(<<>>)

\* main.rs: the dispatch loop calls executor.execute(client, &opp)
Call(p) ==
    /\ p \in callers
    /\ pc[p] = "idle"
    /\ execs < MaxExecs
    /\ execs' = execs + 1
    /\ \E e \in ExpectedProfits, a \in DryRunProfits :
        /\ opportunity' = [opportunity EXCEPT ![p] = Opportunity(e)]
        /\ dry_run_profit' = [dry_run_profit EXCEPT ![p] = a]
    /\ pc' = [pc EXCEPT ![p] = "gas_price"]
    /\ gas_price' = [gas_price EXCEPT ![p] = 0]
    /\ sim_result' = [sim_result EXCEPT ![p] = NoSim]
    /\ tx_nonce' = [tx_nonce EXCEPT ![p] = -1]
    /\ signed_tx' = [signed_tx EXCEPT ![p] = NoTx]
    /\ attempt' = [attempt EXCEPT ![p] = 0]
    /\ last_hash' = [last_hash EXCEPT ![p] = None]
    /\ result' = [result EXCEPT ![p] = NoResult]
    /\ sends' = [sends EXCEPT ![p] = <<>>]
    /\ tracked' = [tracked EXCEPT ![p] = <<>>]
    /\ nonce_at_call' = [nonce_at_call EXCEPT ![p] = nonce]
    /\ pending_at_call' = [pending_at_call EXCEPT ![p] = pending_txs]
    /\ UNCHANGED <<nonce, pending_txs, callers, issued>>
    /\ UNCHANGED outside_execute

\* Step 1: get_gas_price and the max_gas_price check
GetGasPrice(p) ==
    /\ pc[p] = "gas_price"
    /\ \/ /\ pc' = [pc EXCEPT ![p] = "done"]
          /\ result' = [result EXCEPT ![p] = ExecError]
          /\ UNCHANGED gas_price
       \/ \E gp \in GasPrices :
            /\ gas_price' = [gas_price EXCEPT ![p] = gp]
            /\ IF gas_price_too_high(gp)
               THEN /\ pc' = [pc EXCEPT ![p] = "done"]
                    /\ result' = [result EXCEPT ![p] = Failed("Gas price too high")]
               ELSE /\ pc' = [pc EXCEPT ![p] = "simulate"]
                    /\ UNCHANGED result
    /\ UNCHANGED <<nonce, pending_txs, callers, execs, opportunity,
                   dry_run_profit, sim_result, tx_nonce, signed_tx, attempt,
                   last_hash, sends, tracked, nonce_at_call, pending_at_call,
                   issued>>
    /\ UNCHANGED outside_execute

\* Steps 2 and 3: simulate, then the success and net-profit checks
Simulate(p) ==
    /\ pc[p] = "simulate"
    /\ \E call_ok \in BOOLEAN, estimate \in GasEstimates :
        LET sim == simulate(opportunity[p], gas_price[p], call_ok, estimate)
        IN /\ sim_result' = [sim_result EXCEPT ![p] = sim]
           /\ IF ~sim.success
              THEN /\ pc' = [pc EXCEPT ![p] = "done"]
                   /\ result' = [result EXCEPT ![p] =
                          Failed(IF sim.revert_reason # None
                                 THEN sim.revert_reason
                                 ELSE "Simulation failed")]
              ELSE IF sim.net_profit = 0
              THEN /\ pc' = [pc EXCEPT ![p] = "done"]
                   /\ result' = [result EXCEPT ![p] =
                          Failed("Not profitable after gas costs")]
              ELSE /\ pc' = [pc EXCEPT ![p] = "issue_nonce"]
                   /\ UNCHANGED result
    /\ UNCHANGED <<nonce, pending_txs, callers, execs, opportunity,
                   dry_run_profit, gas_price, tx_nonce, signed_tx, attempt,
                   last_hash, sends, tracked, nonce_at_call, pending_at_call,
                   issued>>
    /\ UNCHANGED outside_execute

\* Step 4: get_and_increment_nonce
IssueNonce(p) ==
    /\ pc[p] = "issue_nonce"
    /\ LET r == get_and_increment_nonce(nonce)
       IN /\ tx_nonce' = [tx_nonce EXCEPT ![p] = r.issued]
          /\ nonce' = r.stored
          /\ issued' = Append(issued, [task |-> p, nonce |-> r.issued,
                                       decremented |-> FALSE])
    /\ pc' = [pc EXCEPT ![p] = "sign"]
    /\ UNCHANGED <<pending_txs, callers, execs, opportunity, dry_run_profit,
                   gas_price, sim_result, signed_tx, attempt, last_hash,
                   result, sends, tracked, nonce_at_call, pending_at_call>>
    /\ UNCHANGED outside_execute

\* Steps 4 and 5: build the transaction and sign it; a signing error leaves
\* execute through `?`
Sign(p) ==
    /\ pc[p] = "sign"
    /\ \/ /\ signed_tx' = [signed_tx EXCEPT ![p] =
                build_transaction(opportunity[p],
                                  min_profit_of(sim_result[p].net_profit),
                                  gas_limit_of(sim_result[p].gas_estimate),
                                  gas_price[p], 0, tx_nonce[p])]
          /\ pc' = [pc EXCEPT ![p] = "submit"]
          /\ UNCHANGED result
       \/ /\ pc' = [pc EXCEPT ![p] = "done"]
          /\ result' = [result EXCEPT ![p] = ExecError]
          /\ UNCHANGED signed_tx
    /\ UNCHANGED <<nonce, pending_txs, callers, execs, opportunity,
                   dry_run_profit, gas_price, sim_result, tx_nonce, attempt,
                   last_hash, sends, tracked, nonce_at_call, pending_at_call,
                   issued>>
    /\ UNCHANGED outside_execute

\* one send_raw_transaction of the resubmit loop
Submit(p) ==
    /\ pc[p] = "submit"
    /\ attempt' = [attempt EXCEPT ![p] = @ + 1]
    /\ \/ \E h \in Hashes :
            /\ last_hash' = [last_hash EXCEPT ![p] = h]
            /\ sends' = [sends EXCEPT ![p] =
                   Append(@, [bytes |-> signed_tx[p], accepted |-> TRUE,
                              hash |-> h, error |-> None, receipt |-> None])]
            /\ pc' = [pc EXCEPT ![p] = "receipt"]
            /\ UNCHANGED <<result, pending_txs, tracked, nonce, issued>>
       \/ \E msg \in SubmitErrors :
            /\ sends' = [sends EXCEPT ![p] =
                   Append(@, [bytes |-> signed_tx[p], accepted |-> FALSE,
                              hash |-> None, error |-> msg, receipt |-> None])]
            /\ UNCHANGED last_hash
            /\ LET d == on_submit_error(msg, last_hash[p])
               IN IF d.ret # NoResult
                  THEN Apply(p, d)
                  ELSE EndOfAttempt(p, attempt[p] + 1, last_hash[p])
    /\ UNCHANGED <<callers, execs, opportunity, dry_run_profit, gas_price,
                   sim_result, tx_nonce, signed_tx, nonce_at_call,
                   pending_at_call>>
    /\ UNCHANGED outside_execute

\* the wait of RESUBMIT_WAIT_MS and get_transaction_receipt(hash)
Receipt(p) ==
    /\ pc[p] = "receipt"
    /\ \E outcome \in ReceiptOutcomes :
        /\ sends' = [sends EXCEPT ![p][Len(sends[p])].receipt = outcome]
        /\ LET d == on_receipt(outcome, last_hash[p], opportunity[p])
           IN IF d.ret # NoResult
              THEN Apply(p, d)
              ELSE EndOfAttempt(p, attempt[p], last_hash[p])
    /\ UNCHANGED <<callers, execs, opportunity, dry_run_profit, gas_price,
                   sim_result, tx_nonce, signed_tx, attempt, last_hash,
                   nonce_at_call, pending_at_call>>
    /\ UNCHANGED outside_execute

\* execute has returned; the dispatch loop records the result and goes on
Return(p) ==
    /\ pc[p] = "done"
    /\ pc' = [pc EXCEPT ![p] = "idle"]
    /\ UNCHANGED <<nonce, pending_txs, callers, execs, opportunity,
                   dry_run_profit, gas_price, sim_result, tx_nonce, signed_tx,
                   attempt, last_hash, result, sends, tracked, nonce_at_call,
                   pending_at_call, issued>>
    /\ UNCHANGED outside_execute

ExecuteStep(p) ==
    \/ GetGasPrice(p)
    \/ Simulate(p)
    \/ IssueNonce(p)
    \/ Sign(p)
    \/ Submit(p)
    \/ Receipt(p)
    \/ Return(p)

Next == \E p \in Tasks : Call(p) \/ ExecuteStep(p)

Spec == Init /\ [][Next]_vars

\* the runtime keeps polling a started execute, and the node answers
FairSpec == Spec /\ \A p \in Tasks : WF_vars(ExecuteStep(p))

\* ------------------------------------------------------ concurrent executes

\* number of execute calls of the concurrent callers
ConcurrentExecs == MaxExecs + 1

\* the hash send_raw_transaction returns for the transaction of task p: the
\* hash of the signed bytes, the same on every resubmission
tx_hash(p) == IF p = 1 THEN "h1" ELSE "h2"

\* the Arc<Executor> is handed to one more task that calls execute
Spawn ==
    /\ callers # Tasks
    /\ callers' = Tasks
    /\ UNCHANGED <<nonce, pending_txs, execs, pc, locals, result, sends,
                   tracked, nonce_at_call, pending_at_call, issued>>
    /\ UNCHANGED outside_execute

\* execute is called with an opportunity that passes steps 1 to 3: the gas
\* price is within the limit and the simulation profitable; it takes its
\* nonce with get_and_increment_nonce and signs the transaction
ExecuteToSubmit(p) ==
    /\ p \in callers
    /\ pc[p] = "idle"
    /\ execs < ConcurrentExecs
    /\ execs' = execs + 1
    /\ LET r == get_and_increment_nonce(nonce)
       IN /\ tx_nonce' = [tx_nonce EXCEPT ![p] = r.issued]
          /\ nonce' = r.stored
          /\ issued' = Append(issued, [task |-> p, nonce |-> r.issued,
                                       decremented |-> FALSE])
    /\ attempt' = [attempt EXCEPT ![p] = 0]
    /\ last_hash' = [last_hash EXCEPT ![p] = None]
    /\ result' = [result EXCEPT ![p] = NoResult]
    /\ tracked' = [tracked EXCEPT ![p] = <<>>]
    /\ pc' = [pc EXCEPT ![p] = "submit"]
    /\ UNCHANGED <<pending_txs, callers, opportunity, dry_run_profit,
                   gas_price, sim_result, signed_tx, sends, nonce_at_call,
                   pending_at_call>>
    /\ UNCHANGED outside_execute

\* one send_raw_transaction of the resubmit loop
Resubmit(p) ==
    /\ pc[p] = "submit"
    /\ attempt' = [attempt EXCEPT ![p] = @ + 1]
    /\ \/ /\ last_hash' = [last_hash EXCEPT ![p] = tx_hash(p)]
          /\ pc' = [pc EXCEPT ![p] = "receipt"]
          /\ UNCHANGED <<result, pending_txs, tracked, nonce, issued>>
       \/ \E msg \in SubmitErrors :
            /\ UNCHANGED last_hash
            /\ LET d == on_submit_error(msg, last_hash[p])
               IN IF d.ret # NoResult
                  THEN Apply(p, d)
                  ELSE EndOfAttempt(p, attempt[p] + 1, last_hash[p])
    /\ UNCHANGED <<callers, execs, opportunity, dry_run_profit, gas_price,
                   sim_result, tx_nonce, signed_tx, sends, nonce_at_call,
                   pending_at_call>>
    /\ UNCHANGED outside_execute

\* the wait of RESUBMIT_WAIT_MS and get_transaction_receipt(hash)
ResubmitReceipt(p) ==
    /\ pc[p] = "receipt"
    /\ \E outcome \in ReceiptOutcomes :
        LET d == on_receipt(outcome, last_hash[p], opportunity[p])
        IN IF d.ret # NoResult
           THEN Apply(p, d)
           ELSE EndOfAttempt(p, attempt[p], last_hash[p])
    /\ UNCHANGED <<callers, execs, opportunity, dry_run_profit, gas_price,
                   sim_result, tx_nonce, signed_tx, attempt, last_hash, sends,
                   nonce_at_call, pending_at_call>>
    /\ UNCHANGED outside_execute

ConcurrentStep(p) ==
    \/ ExecuteToSubmit(p)
    \/ Resubmit(p)
    \/ ResubmitReceipt(p)
    \/ Return(p)

ConcurrentNext == Spawn \/ \E p \in Tasks : ConcurrentStep(p)

\* execute calls of several tasks on one Executor
ConcurrentSpec == Init /\ [][ConcurrentNext]_vars

\* ------------------------------------------------------------ resync_nonce

\* "Call this after failed transactions": a caller of execute whose last
\* execute returned Failed calls resync_nonce
ResyncCall(p) ==
    /\ p \in callers
    /\ pc[p] = "idle"
    /\ result[p].tag = "Failed"
    /\ resync_calls < MaxResyncs
    /\ resync_calls' = resync_calls + 1
    /\ pc' = [pc EXCEPT ![p] = "resync"]
    /\ UNCHANGED <<nonce, pending_txs, callers, execs, locals, result, sends,
                   tracked, nonce_at_call, pending_at_call, issued,
                   last_resync, now, tracker, scheduler>>

\* get_transaction_count answers and resync_nonce returns
ResyncAnswer(p) ==
    /\ pc[p] = "resync"
    /\ \E answer \in ChainCounts :
        /\ nonce' = resync_nonce(nonce, answer)
        /\ last_resync' = [status |-> IF answer.ok THEN "ok" ELSE "err",
                           count |-> answer.count,
                           before |-> nonce,
                           at |-> Len(issued)]
    /\ pc' = [pc EXCEPT ![p] = "idle"]
    /\ UNCHANGED <<pending_txs, callers, execs, locals, result, sends,
                   tracked, nonce_at_call, pending_at_call, issued,
                   resync_calls, now, tracker, scheduler>>

ResyncStep(p) == ResyncCall(p) \/ ResyncAnswer(p)

ResyncNext == Next \/ \E p \in Tasks : ResyncStep(p)

\* the executor with a caller that resyncs the nonce
ResyncSpec == Init /\ [][ResyncNext]_vars

\* ---------------------------------------------------------- check_pending

\* the state of the execute calls other than the pending list
execute_state == <<nonce, callers, execs, pc, locals, result, sends,
                   nonce_at_call, pending_at_call, issued, resync_calls,
                   last_resync>>

\* time passes
Tick ==
    /\ now < MaxTicks * TickSecs
    /\ now' = now + TickSecs
    /\ UNCHANGED <<scheduler, execute_state, pending_txs, tracked, tracker>>

\* an execute of task p reaches track_pending with a transaction hash not
\* tracked before; the write lock is not granted while check_pending holds
\* the read lock
TrackPending(p) ==
    /\ p \in callers
    /\ tracker_pc # "query"
    /\ \E h \in Hashes, e \in ExpectedProfits :
        /\ \A i \in 1..Len(tracked[p]) : tracked[p][i].hash # h
        /\ LET tx == PendingTx(h, Opportunity(e), max_gas_price)
           IN /\ pending_txs' = Append(pending_txs, tx)
              /\ tracked' = [tracked EXCEPT ![p] = Append(@, tx)]
    /\ UNCHANGED <<scheduler, execute_state, now, tracker>>

\* the checker task's interval fires and it calls check_pending, which
\* takes the read lock
PollStart ==
    /\ tracker_pc = "idle"
    /\ tracker_pc' = "query"
    /\ poll_index' = 1
    /\ completed_hashes' = <<>>
    /\ results' = <<>>
    /\ poll_log' = <<>>
    /\ UNCHANGED <<scheduler, execute_state, pending_txs, tracked, now, recorded,
                   retained>>

\* one iteration of `for pending in pending_txs.iter()`
QueryReceipt ==
    /\ tracker_pc = "query"
    /\ poll_index <= Len(pending_txs)
    /\ \E outcome \in ReceiptOutcomes :
        LET tx == pending_txs[poll_index]
            elapsed == now - tx.submitted_at
            d == check_receipt(outcome, tx, elapsed)
        IN /\ poll_log' = Append(poll_log, [tx |-> tx, outcome |-> outcome,
                                            elapsed |-> elapsed])
           /\ completed_hashes' = IF d.complete
                                  THEN Append(completed_hashes, tx.hash)
                                  ELSE completed_hashes
           /\ results' = IF d.result # NoResult
                         THEN Append(results, d.result)
                         ELSE results
    /\ poll_index' = poll_index + 1
    /\ UNCHANGED <<scheduler, execute_state, pending_txs, tracked, now, tracker_pc,
                   recorded, retained>>

\* the loop is over and the read lock dropped: with nothing completed
\* check_pending returns, otherwise it waits for the write lock
EndQuery ==
    /\ tracker_pc = "query"
    /\ poll_index > Len(pending_txs)
    /\ IF completed_hashes = <<>>
       THEN /\ tracker_pc' = "idle"
            /\ recorded' = recorded \o results
       ELSE /\ tracker_pc' = "retain"
            /\ UNCHANGED recorded
    /\ UNCHANGED <<scheduler, execute_state, pending_txs, tracked, now, poll_index,
                   completed_hashes, results, poll_log, retained>>

\* retain under the write lock; check_pending returns and the checker task
\* records every result
Retain ==
    /\ tracker_pc = "retain"
    /\ pending_txs' = retain(pending_txs, completed_hashes)
    /\ retained' = retain(pending_txs, completed_hashes)
    /\ recorded' = recorded \o results
    /\ tracker_pc' = "idle"
    /\ UNCHANGED <<scheduler, execute_state, tracked, now, poll_index, completed_hashes,
                   results, poll_log>>

CheckPendingStep == PollStart \/ QueryReceipt \/ EndQuery \/ Retain

TrackerNext == Tick \/ CheckPendingStep \/ \E p \in Tasks : TrackPending(p)

\* the pending-TX checker task beside executes that track transactions
TrackerSpec == Init /\ [][TrackerNext]_vars

\* ------------------------------------------------------------- TieredPool

\* a caller makes a pool with TieredPool::new
NewPool ==
    /\ \E a \in Addresses, t \in Tokens, r \in 0..MaxRank :
        new_pool' = Some(TieredPool_new(a, t, r))
    /\ UNCHANGED <<pools, tokens, lazy_pc, tier3_tokens, sched_log, stream,
                   detector_log, services>>
    /\ UNCHANGED <<execute_state, pending_txs, tracked, now, tracker>>

\* pools made with every volume rank
TieredPoolSpec == Init /\ [][NewPool]_vars

\* ---------------------------------------------------------- scheduler tasks

\* what no step of the scheduler touches
outside_scheduler ==
    <<execute_state, pending_txs, tracked, now, tracker, stream, detector_log,
      services>>

\* time passes: every running promotion gets older
PromotionTick ==
    /\ \E a \in DOMAIN pools :
        /\ pools[a].promotion_time # NoneOpt
        /\ pools[a].promotion_time[1] < PromotionAgeCap
    /\ pools' = [a \in DOMAIN pools |->
                    IF /\ pools[a].promotion_time # NoneOpt
                       /\ pools[a].promotion_time[1] < PromotionAgeCap
                    THEN [pools[a] EXCEPT !.promotion_time =
                              Some(pools[a].promotion_time[1] + PromotionTickSecs)]
                    ELSE pools[a]]
    /\ sched_log' = SchedLog("tick", NoQuotes, {}, {})
    /\ UNCHANGED <<tokens, lazy_pc, tier3_tokens, new_pool, outside_scheduler>>

\* add_pools with one pool made by TieredPool::new
AddPools ==
    /\ \E a \in Addresses, t \in Tokens, r \in Ranks :
        /\ tokens' = tokens \cup {t}
        /\ pools' = (a :> TieredPool_new(a, t, r)) @@ pools
    /\ sched_log' = SchedLog("add_pools", NoQuotes, {}, {})
    /\ UNCHANGED <<lazy_pc, tier3_tokens, new_pool, outside_scheduler>>

\* the Tier 3 interval fires: the task collects the Tier 3 pools and their
\* tokens and calls fetch_all_quotes; with no pool or no token the
\* iteration ends without a step
LazyScan ==
    /\ lazy_pc = "idle"
    /\ LET tier3_pools == {a \in DOMAIN pools : pools[a].tier = Tier3Lazy}
           found == {pools[a].token_address : a \in tier3_pools} \cap tokens
       IN /\ found # {}
          /\ tier3_tokens' = found
    /\ lazy_pc' = "fetch"
    /\ UNCHANGED <<pools, tokens, sched_log, new_pool, outside_scheduler>>

\* fetch_all_quotes answers Ok with one TokenQuotes per token, and
\* check_promotions runs under the write lock
LazyCheckPromotions ==
    /\ lazy_pc = "fetch"
    /\ \E fetched \in [tier3_tokens -> QuoteSets] :
        LET token_quotes == [t \in Tokens |-> IF t \in tier3_tokens
                                              THEN fetched[t]
                                              ELSE NotFetched]
        IN /\ pools' = [a \in DOMAIN pools |->
                           IF pools[a].token_address \in tier3_tokens
                           THEN check_promotion(
                                    pools[a],
                                    token_quotes[pools[a].token_address])
                           ELSE pools[a]]
           /\ sched_log' = SchedLog(
                  "check_promotions", token_quotes,
                  {a \in DOMAIN pools :
                      /\ pools[a].token_address \in tier3_tokens
                      /\ calls_promote(pools[a],
                                       token_quotes[pools[a].token_address])},
                  {})
    /\ lazy_pc' = "idle"
    /\ tier3_tokens' = {}
    /\ UNCHANGED <<tokens, new_pool, outside_scheduler>>

\* fetch_all_quotes answers Err
LazyFetchFailed ==
    /\ lazy_pc = "fetch"
    /\ lazy_pc' = "idle"
    /\ tier3_tokens' = {}
    /\ UNCHANGED <<pools, tokens, sched_log, new_pool, outside_scheduler>>

\* one wake-up of the demotion checker: check_demotion on every pool under
\* the write lock
DemotionCycle ==
    /\ pools' = [a \in DOMAIN pools |-> check_demotion(pools[a]).pool]
    /\ sched_log' = SchedLog("demotion", NoQuotes, {},
                             {a \in DOMAIN pools : check_demotion(pools[a]).demoted})
    /\ UNCHANGED <<tokens, lazy_pc, tier3_tokens, new_pool, outside_scheduler>>

SchedulerNext ==
    \/ PromotionTick
    \/ AddPools
    \/ LazyScan
    \/ LazyCheckPromotions
    \/ LazyFetchFailed
    \/ DemotionCycle

\* Scheduler::new: no pools, no tokens; the scheduler shares nothing with
\* the executor, whose nonce counter is taken at its lowest
SchedulerInit == Init /\ nonce = 0

\* the scheduler with its Tier 3 task and its demotion checker
SchedulerSpec == SchedulerInit /\ [][SchedulerNext]_vars

\* time passes and the demotion checker's interval keeps firing
FairSchedulerSpec ==
    SchedulerSpec /\ WF_vars(PromotionTick) /\ WF_vars(DemotionCycle)

\* -------------------------------------------------------------- Tier 1 task

\* the addresses of the pools that are in Tier 1 now
StreamAddresses == {a \in DOMAIN pools : pools[a].tier = Tier1Stream}

\* the addresses of the filter of the open log subscription
Subscribed ==
    IF stream_pc \in {"streaming", "handling"} THEN tier1_pools ELSE {}

\* what no step of the Tier 1 task touches
outside_stream == <<pools, tokens, lazy_pc, tier3_tokens, sched_log, new_pool,
                    execute_state, pending_txs, tracked, now, tracker,
                    detector_log, services>>

\* variant: the task ends with its stream
after_stream_end_exit == "exited"

\* where the task goes when `stream.next()` returns None: the sleep of 1 s
\* at the end of the outer loop
after_stream_end == "sleep_1s"

\* variant: the task gives up when subscribe_logs fails
after_subscribe_error_exit == "exited"

\* where the task goes when subscribe_logs returns Err: the sleep of 5 s
after_subscribe_error == "sleep_5s"

\* the top of the outer loop: the task collects the Tier 1 pools; with none
\* it sleeps 5 s, otherwise it builds the filter and calls subscribe_logs
StreamSnapshot ==
    /\ stream_pc = "snapshot"
    /\ tier1_pools' = StreamAddresses
    /\ stream_pc' = IF StreamAddresses = {} THEN "sleep_5s" ELSE "subscribing"
    /\ UNCHANGED outside_stream

\* subscribe_logs answers
StreamSubscribe ==
    /\ stream_pc = "subscribing"
    /\ \/ /\ stream_pc' = "streaming"
          /\ UNCHANGED tier1_pools
       \/ /\ stream_pc' = after_subscribe_error
          /\ tier1_pools' = {}
    /\ UNCHANGED outside_stream

\* `stream.next()` yields a log: the task fetches quotes for the tokens of
\* tier1_pools
StreamEvent ==
    /\ stream_pc = "streaming"
    /\ stream_pc' = "handling"
    /\ UNCHANGED <<tier1_pools, outside_stream>>

\* the quotes are in (or the fetch failed) and the opportunities sent: the
\* task is back at `stream.next()`
StreamHandled ==
    /\ stream_pc = "handling"
    /\ stream_pc' = "streaming"
    /\ UNCHANGED <<tier1_pools, outside_stream>>

\* `stream.next()` yields None: the subscription is dropped
StreamEnded ==
    /\ stream_pc = "streaming"
    /\ stream_pc' = after_stream_end
    /\ tier1_pools' = {}
    /\ UNCHANGED outside_stream

\* a sleep is over and the outer loop starts again
StreamWake ==
    /\ stream_pc \in {"sleep_1s", "sleep_5s"}
    /\ stream_pc' = "snapshot"
    /\ UNCHANGED <<tier1_pools, outside_stream>>

StreamStep ==
    \/ StreamSnapshot
    \/ StreamSubscribe
    \/ StreamEvent
    \/ StreamHandled
    \/ StreamEnded
    \/ StreamWake

StreamNext == StreamStep \/ SchedulerNext

\* the scheduler with its Tier 1 task beside the other tasks
StreamSpec == SchedulerInit /\ [][StreamNext]_vars

\* ------------------------------------------------------------ trade sizer

\* Amounts (U256 in the source, wei) are counted in units of 10^15 wei.
\* The f64 values of the solver are exact fractions [n, d] with d > 0, in
\* lowest terms: the model computes the expressions of the source without
\* the rounding of f64.

\* MAX_LIQUIDITY_PERCENT
MAX_LIQUIDITY_PERCENT == 90

\* MIN_TRADE_SIZE_WEI: 0.01 ETH, in units of 10^15 wei
MIN_TRADE_SIZE_WEI == 10

\* MAX_ITERATIONS
MAX_ITERATIONS == 50

\* Venue
Curve == "Curve"

Balancer == "Balancer"

UniswapV3 == "UniswapV3"

Maverick == "Maverick"

RECURSIVE GCD(_, _)
\* greatest common divisor of two naturals
GCD(a, b) == IF b = 0 THEN a ELSE GCD(b, a % b)

\* the fraction n / d in lowest terms, d # 0
Q(n, d) ==
    LET g == GCD(Abs(n), Abs(d))
        sign == IF d < 0 THEN -1 ELSE 1
    IN [n |-> sign * (n \div g), d |-> sign * (d \div g)]

QInt(v) == [n |-> v, d |-> 1]

QNeg(a) == [n |-> -a.n, d |-> a.d]

QMul(a, b) ==
    LET g1 == GCD(Abs(a.n), b.d)
        g2 == GCD(Abs(b.n), a.d)
    IN Q((a.n \div g1) * (b.n \div g2), (a.d \div g2) * (b.d \div g1))

QDiv(a, b) ==
    QMul(a, IF b.n < 0 THEN [n |-> -b.d, d |-> -b.n]
                       ELSE [n |-> b.d, d |-> b.n])

QAdd(a, b) ==
    LET l == (a.d \div GCD(a.d, b.d)) * b.d
    IN Q(a.n * (l \div a.d) + b.n * (l \div b.d), l)

QSub(a, b) == QAdd(a, QNeg(b))

QLess(a, b) == QSub(a, b).n < 0

RECURSIVE IsqrtIter(_, _)
IsqrtIter(v, r) ==
    LET next == (r + (v \div r)) \div 2
    IN IF next >= r THEN r ELSE IsqrtIter(v, next)

\* the integer part of the square root of a natural
Isqrt(v) == IF v < 2 THEN v ELSE IsqrtIter(v, (v \div 2) + 1)

\* f64::sqrt: exact where numerator and denominator are squares, as they
\* are for every radicand of a profitable pair of the pools below; elsewhere
\* the integer parts
sqrt(a) == Q(Isqrt(a.n), Isqrt(a.d))

\* u256_to_f64: the sum of the four limbs, which is the value; the result
\* is finite for every U256, so the None branch is never taken
u256_to_f64(val) == QInt(val)

\* f64_to_u256: None for a negative value, else the integer part
f64_to_u256(val) == IF val.n < 0 THEN NoneOpt ELSE Some(val.n \div val.d)

\* PoolParams
PoolParams(venue, reserve_x, reserve_y, fee_bps, amp) ==
    [venue |-> venue, reserve_x |-> reserve_x, reserve_y |-> reserve_y,
     fee_bps |-> fee_bps, amp |-> amp]

\* OptimalTrade
OptimalTrade(optimal_input, expected_profit, buy_venue, sell_venue, iterations) ==
    [optimal_input |-> optimal_input, expected_profit |-> expected_profit,
     buy_venue |-> buy_venue, sell_venue |-> sell_venue,
     iterations |-> iterations]

\* variant: the fee is added
fee_multiplier_added(pool) == QAdd(QInt(1), Q(pool.fee_bps, 10000))

\* fee multiplier 1 - fee
fee_multiplier(pool) == QSub(QInt(1), Q(pool.fee_bps, 10000))

\* variant: the sell pool is read like the buy pool
sell_reserves_unswapped(sell_pool) ==
    [x |-> u256_to_f64(sell_pool.reserve_x),
     y |-> u256_to_f64(sell_pool.reserve_y)]

\* sell_x and sell_y: the LST is "x" in the sell pool, ETH is "y"
sell_reserves(sell_pool) ==
    [x |-> u256_to_f64(sell_pool.reserve_y),
     y |-> u256_to_f64(sell_pool.reserve_x)]

\* sqrt_term - buy_x * sell_x
cp_numerator(buy_pool, sell_pool) ==
    LET buy_x == u256_to_f64(buy_pool.reserve_x)
        buy_y == u256_to_f64(buy_pool.reserve_y)
        sell_x == sell_reserves(sell_pool).x
        sell_y == sell_reserves(sell_pool).y
        buy_fee == fee_multiplier(buy_pool)
        sell_fee == fee_multiplier(sell_pool)
        sqrt_term ==
            sqrt(QMul(QMul(QMul(QMul(QMul(buy_fee, sell_fee), buy_y),
                                sell_y), buy_x), sell_x))
    IN QSub(sqrt_term, QMul(buy_x, sell_x))

\* buy_fee * buy_y + sell_x / sell_fee
cp_denominator(buy_pool, sell_pool) ==
    QAdd(QMul(fee_multiplier(buy_pool), u256_to_f64(buy_pool.reserve_y)),
         QDiv(sell_reserves(sell_pool).x, fee_multiplier(sell_pool)))

\* the expected profit that optimal_constant_product evaluates at input x:
\* eth_received - x
cp_profit(buy_pool, sell_pool, x) ==
    LET buy_x == u256_to_f64(buy_pool.reserve_x)
        buy_y == u256_to_f64(buy_pool.reserve_y)
        sell_x == sell_reserves(sell_pool).x
        sell_y == sell_reserves(sell_pool).y
        buy_fee == fee_multiplier(buy_pool)
        sell_fee == fee_multiplier(sell_pool)
        lst_bought == QDiv(QMul(QMul(buy_fee, buy_y), x),
                           QAdd(buy_x, QMul(buy_fee, x)))
        eth_received == QDiv(QMul(QMul(sell_fee, sell_y), lst_bought),
                             QAdd(sell_x, lst_bought))
    IN QSub(eth_received, x)

\* optimal_x of the closed form
cp_optimal_x(buy_pool, sell_pool) ==
    QDiv(cp_numerator(buy_pool, sell_pool),
         cp_denominator(buy_pool, sell_pool))

\* Solver::optimal_constant_product
optimal_constant_product(buy_pool, sell_pool) ==
    LET numerator == cp_numerator(buy_pool, sell_pool)
        denominator == cp_denominator(buy_pool, sell_pool)
        optimal_x == cp_optimal_x(buy_pool, sell_pool)
        profit == cp_profit(buy_pool, sell_pool, optimal_x)
    IN IF numerator.n <= 0 \/ denominator.n <= 0 THEN NoneOpt
       ELSE IF QLess(optimal_x, QInt(MIN_TRADE_SIZE_WEI)) THEN NoneOpt
       ELSE IF profit.n <= 0 THEN NoneOpt
       ELSE Some(OptimalTrade(f64_to_u256(optimal_x)[1],
                              f64_to_u256(profit)[1],
                              buy_pool.venue, sell_pool.venue, 1))

\* optimal_stableswap and optimal_mixed search the input numerically in
\* f64. Their answer is an input of the model: None, or a trade of at least
\* MIN_TRADE_SIZE_WEI with a profit that was positive before f64_to_u256;
\* the venues are those of the two pools.
numeric_search(buy_pool, sell_pool, answer) ==
    IF answer = NoneOpt THEN NoneOpt
    ELSE Some(OptimalTrade(answer[1].optimal_input,
                           answer[1].expected_profit,
                           buy_pool.venue, sell_pool.venue, MAX_ITERATIONS))

ConstantProductVenues == {UniswapV3, Balancer}

\* the match of find_optimal_trade on the two venues
optimal_for(buy_pool, sell_pool, answer) ==
    IF buy_pool.venue = Curve /\ sell_pool.venue = Curve
    THEN numeric_search(buy_pool, sell_pool, answer)
    ELSE IF /\ buy_pool.venue \in ConstantProductVenues
            /\ sell_pool.venue \in ConstantProductVenues
    THEN optimal_constant_product(buy_pool, sell_pool)
    ELSE numeric_search(buy_pool, sell_pool, answer)

\* variant: the later of two equal profits wins, and a smaller one too
keep_best_last(best_trade, trade) ==
    IF trade = NoneOpt THEN best_trade ELSE trade

\* the update of best_trade with the trade of one pair
keep_best(best_trade, trade) ==
    IF trade = NoneOpt THEN best_trade
    ELSE IF best_trade = NoneOpt THEN trade
    ELSE IF trade[1].expected_profit > best_trade[1].expected_profit
    THEN trade
    ELSE best_trade

\* the answer of the numeric search for the pair (i, j), None where the
\* model was given none
answer_for(answers, i, j) ==
    IF <<i, j>> \in DOMAIN answers THEN answers[<<i, j>>] ELSE NoneOpt

RECURSIVE find_from(_, _, _, _)
\* the two loops of find_optimal_trade from the k-th pair on: pair k is
\* (buy, sell) = (k div n + 1, k mod n + 1)
find_from(pool_list, answers, k, best_trade) ==
    LET n == Len(pool_list)
        i == (k \div n) + 1
        j == (k % n) + 1
    IN IF k >= n * n THEN best_trade
       ELSE IF pool_list[i].venue = pool_list[j].venue
       THEN find_from(pool_list, answers, k + 1, best_trade)
       ELSE find_from(pool_list, answers, k + 1,
                      keep_best(best_trade,
                                optimal_for(pool_list[i], pool_list[j],
                                            answer_for(answers, i, j))))

\* Solver::find_optimal_trade
find_optimal_trade(pool_list, answers) ==
    find_from(pool_list, answers, 0, NoneOpt)

\* no numeric search is asked
NoAnswers == [pair \in {} |-> NoneOpt]

\* reserves of the pools given to the sizer, and their fees: 1 - fee is the
\* square of a fraction
SizerReserves == {25, 100}

SizerFees == {0, 3600}

SizerPools ==
    {PoolParams(v, x, y, f, NoneOpt) :
        v \in ConstantProductVenues, x \in SizerReserves,
        y \in SizerReserves, f \in SizerFees}

SizerPoolLists ==
    {<<>>} \cup {<<a>> : a \in SizerPools}
           \cup {<<a, b>> : a, b \in SizerPools}

\* what no call of the sizer or of the detector touches
outside_detector ==
    <<pools, tokens, lazy_pc, tier3_tokens, sched_log, new_pool, stream,
      execute_state, pending_txs, tracked, now, tracker, services>>

\* a call of find_optimal_trade
FindOptimalTrade ==
    /\ detector_log.op = "none"
    /\ \E pool_list \in SizerPoolLists :
        detector_log' = [op |-> "find_optimal_trade",
                         pools |-> pool_list,
                         trade |-> find_optimal_trade(pool_list, NoAnswers)]
    /\ UNCHANGED outside_detector

SizerInit == Init /\ nonce = 0

SizerSpec == SizerInit /\ [][FindOptimalTrade]_vars

\* --------------------------------------------------------- liquidity clamp

\* Solver::clamp_to_liquidity
clamp_to_liquidity(optimal, vault_balance) ==
    LET max_trade == (vault_balance * MAX_LIQUIDITY_PERCENT) \div 100
    IN IF optimal > max_trade THEN max_trade ELSE optimal

\* variant: the profit of the clamped trade is that of the optimal one
clamped_profit_unscaled(optimal, clamped_input) == optimal.expected_profit

\* expected_profit of the clamped trade
clamped_profit(optimal, clamped_input) ==
    (optimal.expected_profit * clamped_input) \div optimal.optimal_input

\* eyre::Result: Ok(value) and Err
Ok(value) == [ok |-> TRUE, value |-> <<value>>]

Err == [ok |-> FALSE, value |-> <<>>]

\* find_optimal_trade_clamped after its call of find_optimal_trade, which
\* returned `found`; vault is the answer of fetch_vault_weth_balance, asked
\* only when a trade was found
clamp_found(found, vault) ==
    IF found = NoneOpt THEN Ok(NoneOpt)
    ELSE IF ~vault.ok THEN Err
    ELSE LET optimal == found[1]
             clamped_input == clamp_to_liquidity(optimal.optimal_input,
                                                 vault.value[1])
         IN IF clamped_input < optimal.optimal_input
            THEN Ok(Some([optimal EXCEPT
                    !.optimal_input = clamped_input,
                    !.expected_profit =
                        clamped_profit(optimal, clamped_input)]))
            ELSE Ok(Some(optimal))

\* Solver::find_optimal_trade_clamped
find_optimal_trade_clamped(pool_list, answers, vault) ==
    clamp_found(find_optimal_trade(pool_list, answers), vault)

\* inputs of clamp_to_liquidity called by itself: 100 ETH against a vault
\* of 50 ETH is 100000 against 50000
ClampOptimals == {0, 9, 10, 45000, 100000}

ClampVaultBalances == {0, 5, 11, 50000, 200000}

\* answers of fetch_vault_weth_balance
VaultAnswers == {Err, Ok(0), Ok(10), Ok(15), Ok(100)}

\* a call of clamp_to_liquidity
ClampToLiquidity ==
    /\ detector_log.op = "none"
    /\ \E optimal \in ClampOptimals, vault_balance \in ClampVaultBalances :
        detector_log' = [op |-> "clamp_to_liquidity",
                         optimal |-> optimal,
                         vault_balance |-> vault_balance,
                         clamped |-> clamp_to_liquidity(optimal,
                                                        vault_balance)]
    /\ UNCHANGED outside_detector

\* a call of find_optimal_trade_clamped
FindOptimalTradeClamped ==
    /\ detector_log.op = "none"
    /\ \E pool_list \in SizerPoolLists, vault \in VaultAnswers :
        detector_log' = [op |-> "find_optimal_trade_clamped",
                         pools |-> pool_list,
                         optimal |-> find_optimal_trade(pool_list, NoAnswers),
                         vault |-> vault,
                         result |-> find_optimal_trade_clamped(
                                        pool_list, NoAnswers, vault)]
    /\ UNCHANGED outside_detector

ClampNext == ClampToLiquidity \/ FindOptimalTradeClamped

ClampSpec == SizerInit /\ [][ClampNext]_vars

\* ---------------------------------------------------------------- detector

\* venue_fee_bps
venue_fee_bps(venue) ==
    CASE venue = Curve -> 4
      [] venue = Balancer -> 10
      [] venue = UniswapV3 -> 5
      [] venue = Maverick -> 10

\* venue_amplification
venue_amplification(venue) ==
    CASE venue = Curve -> Some(100)
      [] venue = Balancer -> Some(200)
      [] OTHER -> NoneOpt

\* Quote
Quote(buy_amount, sell_amount) ==
    [buy_amount |-> buy_amount, sell_amount |-> sell_amount]

\* one element of TokenQuotes.quotes
VenueQuote(venue, quote) == [venue |-> venue, quote |-> quote]

\* TokenQuotes
TokenQuotes(token, quotes) == [token |-> token, quotes |-> quotes]

\* Opportunity of the detector
DetectedOpportunity(token, buy_venue, sell_venue, buy_price, sell_price, spread_bps, expected_profit, trade_amount) ==
    [token |-> token, buy_venue |-> buy_venue, sell_venue |-> sell_venue,
     buy_price |-> buy_price, sell_price |-> sell_price,
     spread_bps |-> spread_bps, expected_profit |-> expected_profit,
     trade_amount |-> trade_amount]

\* OpportunityDetector::new
OpportunityDetector(min_spread_bps, min_profit) ==
    [min_spread_bps |-> min_spread_bps, min_profit |-> min_profit]

\* the quote has an amount
has_amount(entry) ==
    entry.quote.buy_amount > 0 \/ entry.quote.sell_amount > 0

\* the PoolParams of one quote: both reserves are 100 times the quote
pool_of_quote(entry) ==
    LET estimated_reserve ==
            IF entry.quote.buy_amount > 0
            THEN entry.quote.buy_amount * 100
            ELSE entry.quote.sell_amount * 100
    IN PoolParams(entry.venue, estimated_reserve, estimated_reserve,
                  venue_fee_bps(entry.venue),
                  venue_amplification(entry.venue))

\* `pools` of find_optimal_opportunity
pools_of_quotes(tq) ==
    LET kept == SelectSeq(tq.quotes, has_amount)
    IN [i \in 1..Len(kept) |-> pool_of_quote(kept[i])]

\* spread_bps of a trade
spread_bps_of(optimal_trade) ==
    IF optimal_trade.optimal_input > 0
    THEN (optimal_trade.expected_profit * 10000)
             \div optimal_trade.optimal_input
    ELSE 0

\* the first quote of a venue
quote_of(tq, venue) ==
    LET i == CHOOSE k \in 1..Len(tq.quotes) :
                 /\ tq.quotes[k].venue = venue
                 /\ \A m \in 1..(k - 1) : tq.quotes[m].venue # venue
    IN tq.quotes[i].quote

\* find_optimal_opportunity after its call of find_optimal_trade_clamped,
\* which returned `clamped`
opportunity_of_trade(tq, clamped) ==
    IF ~clamped.ok THEN NoneOpt
    ELSE IF clamped.value[1] = NoneOpt THEN NoneOpt
    ELSE LET optimal_trade == clamped.value[1][1]
         IN Some(DetectedOpportunity(
                tq.token,
                optimal_trade.buy_venue,
                optimal_trade.sell_venue,
                quote_of(tq, optimal_trade.buy_venue).buy_amount,
                quote_of(tq, optimal_trade.sell_venue).sell_amount,
                spread_bps_of(optimal_trade),
                optimal_trade.expected_profit,
                optimal_trade.optimal_input))

\* find_optimal_opportunity after it built `pools`
opportunity_of_pools(tq, pool_list, answers, vault) ==
    IF Len(pool_list) < 2 THEN NoneOpt
    ELSE opportunity_of_trade(
             tq, find_optimal_trade_clamped(pool_list, answers, vault))

\* OpportunityDetector::find_optimal_opportunity
find_optimal_opportunity(tq, answers, vault) ==
    IF Len(tq.quotes) < 2 THEN NoneOpt
    ELSE opportunity_of_pools(tq, pools_of_quotes(tq), answers, vault)

\* variant: only the spread is tested
passes_floors_spread_only(self, opp) ==
    opp.spread_bps >= self.min_spread_bps

\* the test of detect_optimal before the push
passes_floors(self, opp) ==
    /\ opp.spread_bps >= self.min_spread_bps
    /\ opp.expected_profit >= self.min_profit

RECURSIVE sort_from(_, _, _)
\* stable sort, highest expected_profit first: element k goes behind the
\* elements before it that have at least its profit
sort_from(opportunities, k, sorted) ==
    IF k > Len(opportunities) THEN sorted
    ELSE LET opp == opportunities[k]
             ahead == SelectSeq(sorted, LAMBDA o :
                          o.expected_profit >= opp.expected_profit)
             behind == SelectSeq(sorted, LAMBDA o :
                          o.expected_profit < opp.expected_profit)
         IN sort_from(opportunities, k + 1, ahead \o <<opp>> \o behind)

\* the body of the loop of detect_optimal: `found` is pushed when it is an
\* opportunity that passes the floors
push_found(self, opportunities, found) ==
    IF found # NoneOpt /\ passes_floors(self, found[1])
    THEN Append(opportunities, found[1])
    ELSE opportunities

RECURSIVE detect_from(_, _, _, _)
\* the loop of detect_optimal from the k-th TokenQuotes on; scans[k] holds
\* the TokenQuotes with the answers of the numeric searches and of the vault
detect_from(self, scans, k, opportunities) ==
    IF k > Len(scans) THEN opportunities
    ELSE detect_from(self, scans, k + 1,
             push_found(self, opportunities,
                 find_optimal_opportunity(scans[k].tq, scans[k].answers,
                                          scans[k].vault)))

\* OpportunityDetector::detect_optimal
detect_optimal(self, scans) ==
    sort_from(detect_from(self, scans, 1, <<>>), 1, <<>>)

\* detectors: the default configuration (20 bps, 0.001 ETH), one with a
\* higher spread floor and one with a higher profit floor
Detectors ==
    {OpportunityDetector(20, 1), OpportunityDetector(2000, 1),
     OpportunityDetector(20, 5)}

\* quotes of one token: one quote for a venue, and every quote has an
\* amount
DetectorQuotes ==
    {<<VenueQuote(Curve, Quote(2, 2)), VenueQuote(UniswapV3, Quote(1, 1))>>,
     <<VenueQuote(UniswapV3, Quote(1, 1)), VenueQuote(Balancer, Quote(2, 0))>>,
     <<VenueQuote(Balancer, Quote(0, 2)), VenueQuote(Curve, Quote(1, 1))>>,
     <<VenueQuote(Curve, Quote(2, 2))>>}

\* answers of a numeric search, whose floating-point iteration is not
\* computed here: none, or a trade with a positive profit and an input
\* between the minimum size and half the smaller reserve
SearchAnswers ==
    {NoneOpt,
     Some([optimal_input |-> 50, expected_profit |-> 10]),
     Some([optimal_input |-> 10, expected_profit |-> 1])}

\* the ordered pairs of pools that find_optimal_trade hands to a numeric
\* search
SearchedPairs(pool_list) ==
    {pair \in (1..Len(pool_list)) \X (1..Len(pool_list)) :
        /\ pool_list[pair[1]].venue # pool_list[pair[2]].venue
        /\ ~(/\ pool_list[pair[1]].venue \in ConstantProductVenues
             /\ pool_list[pair[2]].venue \in ConstantProductVenues)}

\* one TokenQuotes with the answers its scan gets
Scans ==
    UNION {{[tq |-> TokenQuotes(token, quotes), answers |-> answers,
             vault |-> vault] :
               answers \in [SearchedPairs(pools_of_quotes(
                                TokenQuotes(token, quotes))) -> SearchAnswers],
               vault \in {Err, Ok(10), Ok(100)}} :
           token \in {"t1"}, quotes \in DetectorQuotes}

\* the scan of a second token: the same search answer for every pair
SecondScans ==
    {[tq |-> TokenQuotes("t2", quotes),
      answers |-> [pair \in SearchedPairs(pools_of_quotes(
                       TokenQuotes("t2", quotes))) |-> answer],
      vault |-> Ok(100)] :
        quotes \in DetectorQuotes, answer \in SearchAnswers}

\* a call of detect_optimal with the quotes of one token, or of two
DetectOptimal ==
    /\ detector_log.op = "none"
    /\ \E self \in Detectors :
        \E scans \in {<<>>} \cup {<<a>> : a \in Scans}
                     \cup {<<a, b>> : a \in Scans, b \in SecondScans} :
            detector_log' = [op |-> "detect_optimal",
                             detector |-> self,
                             scans |-> scans,
                             opportunities |-> detect_optimal(self, scans)]
    /\ UNCHANGED outside_detector

DetectorSpec == SizerInit /\ [][DetectOptimal]_vars

\* quotes of one venue: every amount of 0 to 2, and one of them not 0
ClosedFormQuotes ==
    {VenueQuote(venue, Quote(buy_amount, sell_amount)) :
        venue \in {Curve, Balancer, UniswapV3, Maverick},
        buy_amount \in 0..2, sell_amount \in 0..2}
    \ {VenueQuote(venue, Quote(0, 0)) :
          venue \in {Curve, Balancer, UniswapV3, Maverick}}

\* optimal_constant_product on the PoolParams of two quotes
OptimalConstantProduct ==
    /\ detector_log.op = "none"
    /\ \E buy_quote \in ClosedFormQuotes, sell_quote \in ClosedFormQuotes :
        LET buy_pool == pool_of_quote(buy_quote)
            sell_pool == pool_of_quote(sell_quote)
        IN detector_log' = [op |-> "optimal_constant_product",
                            buy_pool |-> buy_pool,
                            sell_pool |-> sell_pool,
                            numerator |-> cp_numerator(buy_pool, sell_pool),
                            trade |-> optimal_constant_product(buy_pool,
                                                               sell_pool)]
    /\ UNCHANGED outside_detector

ClosedFormNext == OptimalConstantProduct \/ DetectOptimal

\* the closed form on pools derived from quotes, and the detector
ClosedFormSpec == SizerInit /\ [][ClosedFormNext]_vars

\* ----------------------------------------------------------- RuntimeConfig

\* Token: the fields the methods read
Token(name, address) == [name |-> name, address |-> address]

RcAddresses == {"a1", "a2"}

RcNames == {"n1", "n2"}

RcTokens == {Token(n, a) : n \in RcNames, a \in RcAddresses}

\* token lists given to RuntimeConfig::new and to update_tokens: one of them
\* names the same address twice
RcTokenLists ==
    {<<>>,
     <<Token("n1", "a1")>>,
     <<Token("n1", "a1"), Token("n2", "a2")>>,
     <<Token("n1", "a1"), Token("n2", "a1")>>}

\* tokens.iter().any(|t| t.address == address)
has_address(token_list, address) ==
    \E i \in 1..Len(token_list) : token_list[i].address = address

\* variant: the token is pushed whether its address is present or not
add_token_body_always(token_list, token) == Append(token_list, token)

\* add_token under the write lock
add_token_body(token_list, token) ==
    IF ~has_address(token_list, token.address)
    THEN Append(token_list, token)
    ELSE token_list

\* remove_token under the write lock: tokens.retain(|t| t.address != address)
remove_token_body(token_list, address) ==
    SelectSeq(token_list, LAMBDA t : t.address # address)

\* update_tokens under the write lock: *tokens = new_tokens
update_tokens_body(token_list, new_tokens) == new_tokens

\* tokens.clone()
clone(token_list) == token_list

\* variant: a reader is let in while a writer holds the lock
read_granted_beside_writer(lock) == TRUE

\* RwLock::read is granted when no writer holds the lock
read_granted(lock) == lock.writer = 0

\* RwLock::write is granted when nobody holds the lock
write_granted(lock) == lock.writer = 0 /\ lock.readers = {}

\* what no step of a RuntimeConfig method touches
outside_runtime_config ==
    <<pools, tokens, lazy_pc, tier3_tokens, sched_log, new_pool, stream,
      detector_log, execute_state, pending_txs, tracked, now, tracker,
      monitor, load_balancer>>

\* the write methods
WriteMethods == {"update_tokens", "add_token", "remove_token"}

\* task p calls update_tokens(new_tokens) and is granted the write lock
UpdateTokensLock(p) ==
    /\ rc_pc[p] = RcIdle
    /\ write_granted(rc_lock)
    /\ \E new_tokens \in RcTokenLists :
        rc_pc' = [rc_pc EXCEPT ![p] = [op |-> "update_tokens", at |-> "body",
                                       arg |-> new_tokens]]
    /\ rc_lock' = [rc_lock EXCEPT !.writer = p]
    /\ UNCHANGED <<rc_tokens, rc_initial, rc_snapshot, rc_committed,
                   outside_runtime_config>>

\* task p calls add_token(token) and is granted the write lock
AddTokenLock(p) ==
    /\ rc_pc[p] = RcIdle
    /\ write_granted(rc_lock)
    /\ \E token \in RcTokens :
        rc_pc' = [rc_pc EXCEPT ![p] = [op |-> "add_token", at |-> "body",
                                       arg |-> token]]
    /\ rc_lock' = [rc_lock EXCEPT !.writer = p]
    /\ UNCHANGED <<rc_tokens, rc_initial, rc_snapshot, rc_committed,
                   outside_runtime_config>>

\* task p calls remove_token(address) and is granted the write lock
RemoveTokenLock(p) ==
    /\ rc_pc[p] = RcIdle
    /\ write_granted(rc_lock)
    /\ \E address \in RcAddresses :
        rc_pc' = [rc_pc EXCEPT ![p] = [op |-> "remove_token", at |-> "body",
                                       arg |-> address]]
    /\ rc_lock' = [rc_lock EXCEPT !.writer = p]
    /\ UNCHANGED <<rc_tokens, rc_initial, rc_snapshot, rc_committed,
                   outside_runtime_config>>

\* the list that the body of the write method of task p leaves
written_by(p) ==
    CASE rc_pc[p].op = "update_tokens" ->
             update_tokens_body(rc_tokens, rc_pc[p].arg)
      [] rc_pc[p].op = "add_token" ->
             add_token_body(rc_tokens, rc_pc[p].arg)
      [] rc_pc[p].op = "remove_token" ->
             remove_token_body(rc_tokens, rc_pc[p].arg)

\* the body of the write method of task p, under the write lock
WriteBody(p) ==
    /\ rc_pc[p].op \in WriteMethods
    /\ rc_pc[p].at = "body"
    /\ rc_tokens' = written_by(p)
    /\ rc_pc' = [rc_pc EXCEPT ![p].at = "unlock"]
    /\ UNCHANGED <<rc_initial, rc_lock, rc_snapshot, rc_committed,
                   outside_runtime_config>>

\* the write guard of task p is dropped and its method returns
WriteUnlock(p) ==
    /\ rc_pc[p].op \in WriteMethods
    /\ rc_pc[p].at = "unlock"
    /\ rc_lock' = [rc_lock EXCEPT !.writer = 0]
    /\ rc_committed' = rc_tokens
    /\ rc_pc' = [rc_pc EXCEPT ![p] = RcIdle]
    /\ UNCHANGED <<rc_tokens, rc_initial, rc_snapshot, outside_runtime_config>>

\* task p calls get_tokens and is granted the read lock
GetTokensLock(p) ==
    /\ rc_pc[p] = RcIdle
    /\ read_granted(rc_lock)
    /\ rc_lock' = [rc_lock EXCEPT !.readers = @ \cup {p}]
    /\ rc_pc' = [rc_pc EXCEPT ![p] = [op |-> "get_tokens", at |-> "body",
                                      arg |-> <<>>]]
    /\ UNCHANGED <<rc_tokens, rc_initial, rc_snapshot, rc_committed,
                   outside_runtime_config>>

\* get_tokens clones the list, drops the read guard and returns the clone
GetTokensReturn(p) ==
    /\ rc_pc[p].op = "get_tokens"
    /\ rc_pc[p].at = "body"
    /\ rc_snapshot' = Some([task |-> p, value |-> clone(rc_tokens)])
    /\ rc_lock' = [rc_lock EXCEPT !.readers = @ \ {p}]
    /\ rc_pc' = [rc_pc EXCEPT ![p] = RcIdle]
    /\ UNCHANGED <<rc_tokens, rc_initial, rc_committed,
                   outside_runtime_config>>

\* add_token and remove_token
TokenListStep(p) ==
    \/ AddTokenLock(p)
    \/ RemoveTokenLock(p)
    \/ WriteBody(p)
    \/ WriteUnlock(p)

TokenListNext == \E p \in RcTasks : TokenListStep(p)

ConfigNext ==
    \E p \in RcTasks :
        \/ TokenListStep(p)
        \/ UpdateTokensLock(p)
        \/ GetTokensLock(p)
        \/ GetTokensReturn(p)

\* a RuntimeConfig made from a token list
ConfigInit ==
    /\ InitOutsideConfig
    /\ nonce = 0
    /\ \E initial_tokens \in RcTokenLists : RuntimeConfig_new(initial_tokens)

\* callers of add_token and remove_token only
TokenListSpec == ConfigInit /\ [][TokenListNext]_vars

\* writers and readers of RuntimeConfig
ConfigSpec == ConfigInit /\ [][ConfigNext]_vars

\* ----------------------------------------------------------------- Monitor

\* calls of record_opportunity and record_execution: one of each by the
\* dispatch loop for every execute
MaxRecords == 2 * MaxExecs

\* what no method of the monitor touches
outside_monitor ==
    <<pools, tokens, lazy_pc, tier3_tokens, sched_log, new_pool, stream,
      detector_log, execute_state, pending_txs, tracked, now, tracker,
      runtime_config, load_balancer>>

\* main.rs: the methods each task calls
CallsOf(p) ==
    CASE p = 1 -> {"record_opportunity", "record_execution"}
      [] p = 2 -> {"record_execution"}
      [] OTHER -> {"log_summary"}

\* the results task p hands to record_execution: the dispatch loop what
\* execute returned, the checker task what check_pending returned
ResultsOf(p) ==
    {Confirmed(h, e) : h \in {"h1"}, e \in ExpectedProfits}
        \cup {Reverted("h1"), Failed("Transaction stuck in mempool")}
        \cup (IF p = 1 THEN {Submitted("h1")} ELSE {})

\* record_opportunity: the write lock, the counter, and the return that
\* drops the guard; nothing is awaited in between
RecordOpportunity(p) ==
    /\ "record_opportunity" \in CallsOf(p)
    /\ monitor_pc[p] = MonIdle
    /\ monitor_calls < MaxRecords
    /\ write_granted(stats_lock)
    /\ stats' = [stats EXCEPT !.opportunities_found = @ + 1]
    /\ monitor_calls' = monitor_calls + 1
    /\ UNCHANGED <<stats_lock, monitor_pc, logged>>
    /\ UNCHANGED outside_monitor

\* record_execution up to its first await after the lock: `self.stats
\* .write().await` is granted and the arm of the match runs.  Submitted and
\* Failed return, which drops the guard; Confirmed drops the guard and
\* awaits send_telegram; Reverted awaits `self.stats.write()` a second time
\* with the guard of line 62 alive
RecordExecution(p) ==
    /\ "record_execution" \in CallsOf(p)
    /\ monitor_pc[p] = MonIdle
    /\ monitor_calls < MaxRecords
    /\ write_granted(stats_lock)
    /\ monitor_calls' = monitor_calls + 1
    /\ \E res \in ResultsOf(p) :
        CASE res.tag = "Submitted" ->
                /\ stats' = [stats EXCEPT !.txs_submitted = @ + 1]
                /\ UNCHANGED <<stats_lock, monitor_pc>>
          [] res.tag = "Confirmed" ->
                /\ stats' = [stats EXCEPT !.txs_confirmed = @ + 1,
                                          !.total_profit_wei = @ + res.profit]
                /\ monitor_pc' = [monitor_pc EXCEPT ![p] =
                       [op |-> "record_execution", at |-> "send_telegram",
                        arg |-> res]]
                /\ UNCHANGED stats_lock
          [] res.tag = "Reverted" ->
                /\ stats_lock' = [stats_lock EXCEPT !.writer = p]
                /\ monitor_pc' = [monitor_pc EXCEPT ![p] =
                       [op |-> "record_execution", at |-> "stats_write",
                        arg |-> res]]
                /\ UNCHANGED stats
          [] OTHER -> UNCHANGED <<stats, stats_lock, monitor_pc>>
    /\ UNCHANGED logged
    /\ UNCHANGED outside_monitor

\* the runtime polls record_execution at its await: the second
\* `self.stats.write().await` of the Reverted arm, once granted, is followed
\* by the counter, the drop of the second guard and send_telegram; when
\* send_telegram is over the function returns and drops a guard it still
\* holds
RecordExecutionResume(p) ==
    /\ monitor_pc[p] # MonIdle
    /\ IF monitor_pc[p].at = "stats_write"
       THEN /\ write_granted(stats_lock)
            /\ stats' = [stats EXCEPT !.txs_reverted = @ + 1]
            /\ monitor_pc' = [monitor_pc EXCEPT ![p].at = "send_telegram"]
            /\ stats_lock' = [stats_lock EXCEPT !.writer = p]
       ELSE /\ monitor_pc' = [monitor_pc EXCEPT ![p] = MonIdle]
            /\ stats_lock' = IF stats_lock.writer = p
                             THEN [stats_lock EXCEPT !.writer = 0]
                             ELSE stats_lock
            /\ UNCHANGED stats
    /\ UNCHANGED <<monitor_calls, logged>>
    /\ UNCHANGED outside_monitor

\* log_summary: the read lock, the log lines, and the return that drops the
\* guard; nothing is awaited in between
LogSummary(p) ==
    /\ "log_summary" \in CallsOf(p)
    /\ monitor_pc[p] = MonIdle
    /\ read_granted(stats_lock)
    /\ logged' = Some(stats)
    /\ UNCHANGED <<stats_lock, stats, monitor_pc, monitor_calls>>
    /\ UNCHANGED outside_monitor

MonitorStep(p) ==
    \/ RecordOpportunity(p)
    \/ RecordExecution(p)
    \/ RecordExecutionResume(p)
    \/ LogSummary(p)

MonitorNext == \E p \in MonitorTasks : MonitorStep(p)

\* the three tasks of main.rs that share the monitor
MonitorSpec == Init /\ [][MonitorNext]_vars

\* the runtime keeps polling every task, and the statistics interval and
\* the results keep coming
FairMonitorSpec ==
    MonitorSpec /\ \A p \in MonitorTasks : WF_vars(MonitorStep(p))

\* ---------------------------------------------------------- RpcLoadBalancer

\* config.rs:99, the default of RpcLoadBalancer.max_latency_ms
max_latency_ms == 100

\* u64::MAX, as the largest latency there is
U64_MAX == 2147483647

\* RpcLoadBalancer.endpoints: the primary url and one backup url
endpoints == <<"u1", "u2">>

\* health_check calls: one for every tick of the health-check interval
MaxHealthChecks == MaxTicks

\* what the probe of health_check can answer within the timeout of
\* 2 * max_latency_ms: a block number after `latency` ms, an error, or
\* nothing
ProbeAnswers ==
    {[ok |-> TRUE, latency |-> l] :
        l \in {max_latency_ms - 1, max_latency_ms, 2 * max_latency_ms - 1}}
    \cup {[ok |-> FALSE, latency |-> 0]}

\* RpcHealth without success_rate and last_check, which are written and
\* never read
RpcHealth(url, latency_ms, is_healthy, consecutive_failures) ==
    [url |-> url, latency_ms |-> latency_ms, is_healthy |-> is_healthy,
     consecutive_failures |-> consecutive_failures]

\* the RpcHealth that initialize_connections inserts for a url
initial_health(url, connected) ==
    IF connected THEN RpcHealth(url, 0, TRUE, 0)
    ELSE RpcHealth(url, U64_MAX, FALSE, 1)

\* the Ok(Ok(_block)) arm of the probe
on_probe_ok(health, latency) ==
    [health EXCEPT !.latency_ms = latency,
                   !.is_healthy = latency < max_latency_ms,
                   !.consecutive_failures = 0]

\* the arm of a failed or timed-out probe
on_probe_failed(health) ==
    [health EXCEPT !.consecutive_failures = @ + 1,
                   !.is_healthy = health.consecutive_failures + 1 < 3]

\* the urls select_primary may end with as best_url: a healthy entry with
\* a latency below u64::MAX that no healthy entry undercuts; the order of
\* health.iter() decides between equal latencies
best_urls(health) ==
    {u \in DOMAIN health :
        /\ health[u].is_healthy
        /\ health[u].latency_ms < U64_MAX
        /\ \A v \in DOMAIN health :
               health[v].is_healthy
                   => health[u].latency_ms <= health[v].latency_ms}

\* select_primary: primary is set when there is a best url with a client,
\* and left as it is otherwise
select_primary(health, clients, primary) ==
    IF best_urls(health) = {}
    THEN {primary}
    ELSE {IF u \in clients THEN Some(u) ELSE primary : u \in best_urls(health)}

\* what no method of the load balancer touches
outside_load_balancer ==
    <<pools, tokens, lazy_pc, tier3_tokens, sched_log, new_pool, stream,
      detector_log, execute_state, pending_txs, tracked, now, tracker,
      runtime_config, monitor>>

\* RpcLoadBalancer::new: initialize_connections connects every endpoint,
\* or fails to, and select_primary picks the primary
InitializeConnections ==
    /\ rpc_pc.at = "new"
    /\ \E connected \in SUBSET Range(endpoints) :
        LET health == [u \in Range(endpoints) |->
                          initial_health(u, u \in connected)]
        IN /\ rpc_health' = health
           /\ rpc_clients' = connected
           /\ rpc_primary' \in select_primary(health, connected, rpc_primary)
    /\ rpc_pc' = [at |-> "idle"]
    /\ rpc_log' = [op |-> "initialize_connections"]
    /\ UNCHANGED rpc_checks
    /\ UNCHANGED outside_load_balancer

\* the interval of the health-check task fires and health_check starts its
\* loop over the endpoints
HealthCheckStart ==
    /\ rpc_pc.at = "idle"
    /\ rpc_checks < MaxHealthChecks
    /\ rpc_checks' = rpc_checks + 1
    /\ rpc_pc' = [at |-> "loop", index |-> 1]
    /\ UNCHANGED <<rpc_health, rpc_clients, rpc_primary, rpc_log>>
    /\ UNCHANGED outside_load_balancer

\* one iteration of the loop of health_check: without a client the url is
\* reconnected, and skipped when that fails; then the probe runs and its
\* arm writes the RpcHealth of the url
HealthCheckEndpoint ==
    /\ rpc_pc.at = "loop"
    /\ LET url == endpoints[rpc_pc.index]
       IN \/ /\ url \notin rpc_clients
             /\ rpc_log' = [op |-> "reconnect_failed", url |-> url]
             /\ UNCHANGED <<rpc_health, rpc_clients>>
          \/ \E answer \in ProbeAnswers :
                /\ rpc_clients' = rpc_clients \cup {url}
                /\ rpc_health' = [rpc_health EXCEPT ![url] =
                       IF answer.ok THEN on_probe_ok(@, answer.latency)
                       ELSE on_probe_failed(@)]
                /\ rpc_log' = [op |-> "probe", url |-> url, answer |-> answer]
    /\ rpc_pc' = IF rpc_pc.index < Len(endpoints)
                 THEN [at |-> "loop", index |-> rpc_pc.index + 1]
                 ELSE [at |-> "select"]
    /\ UNCHANGED <<rpc_primary, rpc_checks>>
    /\ UNCHANGED outside_load_balancer

\* the loop is over: select_primary, and health_check returns
HealthCheckSelectPrimary ==
    /\ rpc_pc.at = "select"
    /\ rpc_primary' \in select_primary(rpc_health, rpc_clients, rpc_primary)
    /\ rpc_pc' = [at |-> "idle"]
    /\ rpc_log' = [op |-> "select_primary"]
    /\ UNCHANGED <<rpc_health, rpc_clients, rpc_checks>>
    /\ UNCHANGED outside_load_balancer

LoadBalancerNext ==
    \/ InitializeConnections
    \/ HealthCheckStart
    \/ HealthCheckEndpoint
    \/ HealthCheckSelectPrimary

\* the load balancer and the health-check task of main.rs
LoadBalancerSpec == Init /\ [][LoadBalancerNext]_vars

\* ------------------------------------------------------- history helpers

\* task p's current (or last) execute has returned
Returned(p) == pc[p] \in {"done", "idle"} /\ result[p] # NoResult

\* indices of the sends of task p that the node accepted before send i
AcceptedBefore(p, i) == {j \in 1..(i - 1) : sends[p][j].accepted}

\* hash of the last send the node accepted before send i (None if none)
LastAcceptedHashBefore(p, i) ==
    IF AcceptedBefore(p, i) = {} THEN None
    ELSE sends[p][CHOOSE j \in AcceptedBefore(p, i) :
                     \A k \in AcceptedBefore(p, i) : k <= j].hash

\* a receipt was seen after send i of task p
ReceiptSeen(p, i) == sends[p][i].receipt \in {"status1", "status0"}

\* the variant the specification adds to ExecutionResult
Aborted(expected, actual) ==
    [tag |-> "Aborted", expected |-> expected, actual |-> actual]

\* ------------------------------------------------------------------- C1

\* the execute of task p passed the simulation checks while the dry run
\* reports less than 90% of the opportunity's expected profit
PreflightBelowThreshold(p) ==
    /\ sim_result[p].success
    /\ sim_result[p].net_profit > 0
    /\ dry_run_profit[p] * 100 < 90 * opportunity[p].expected_profit

\* C1: when the pre-flight re-simulation reports an actual profit below 90%
\* of the expected profit, execute returns Aborted{expected, actual}, sends
\* no transaction and leaves the pending list and the nonce counter as they
\* were when it was called.
C1_PreflightAborts ==
    \A p \in Tasks :
        PreflightBelowThreshold(p) =>
            /\ sends[p] = <<>>
            /\ pending_txs = pending_at_call[p]
            /\ nonce = nonce_at_call[p]
            /\ Returned(p) =>
                   result[p] = Aborted(opportunity[p].expected_profit,
                                       dry_run_profit[p])

\* ------------------------------------------------------------------- C2

\* C2: when execute returns Failed after a nonce was issued and no send was
\* accepted by the node, the nonce counter is back at the value it had when
\* execute was called.
C2_FailedRestoresNonce ==
    \A p \in Tasks :
        ( /\ Returned(p)
          /\ result[p].tag = "Failed"
          /\ tx_nonce[p] # -1
          /\ AcceptedBefore(p, Len(sends[p]) + 1) = {} )
        => nonce = nonce_at_call[p]

\* ------------------------------------------------------------------- C3

\* C3: without resync, each nonce issued is the previously issued nonce
\* plus one, unless the execute that got the previous nonce ended with the
\* Failed decrement, in which case the same nonce is issued again.
C3_ConsecutiveNonces ==
    \A i \in 2..Len(issued) :
        issued[i].nonce = IF issued[i - 1].decremented
                          THEN issued[i - 1].nonce
                          ELSE issued[i - 1].nonce + 1

\* a nonce is issued again after a Failed decrement
C3_Witness ==
    /\ Len(issued) = 2
    /\ issued[1].decremented
    /\ issued[2].nonce = issued[1].nonce

\* ------------------------------------------------------------------- C4

\* C4: a submit error containing "nonce too low" ends the loop at once; the
\* result is Submitted with the hash of the last accepted attempt if there
\* is one, otherwise Failed.
C4_NonceTooLow ==
    \A p \in Tasks : \A i \in 1..Len(sends[p]) :
        Contains(sends[p][i].error, "nonce too low") =>
            /\ i = Len(sends[p])
            /\ Returned(p)
            /\ IF LastAcceptedHashBefore(p, i) # None
               THEN result[p] = Submitted(LastAcceptedHashBefore(p, i))
               ELSE result[p].tag = "Failed"

\* attempts 1 and 2 accepted with different hashes, "nonce too low" on
\* attempt 3, Submitted with the hash of attempt 2
C4_Witness ==
    \E p \in Tasks :
        /\ Len(sends[p]) = 3
        /\ sends[p][1].hash = "h1"
        /\ sends[p][2].hash = "h2"
        /\ sends[p][3].error = "nonce too low"
        /\ result[p] = Submitted("h2")

\* ------------------------------------------------------------------- C5

\* C5: whenever a submit error contains "replacement transaction
\* underpriced", on any attempt and with or without an earlier accepted
\* attempt, the transaction is tracked as a PendingTx and execute returns
\* Submitted.
C5_UnderpricedTracked ==
    \A p \in Tasks : \A i \in 1..Len(sends[p]) :
        Contains(sends[p][i].error, "replacement transaction underpriced") =>
            /\ Returned(p)
            /\ result[p].tag = "Submitted"
            /\ Len(tracked[p]) = 1

\* ------------------------------------------------------------------- C6

\* all attempts of task p's execute were used and none saw a receipt, and
\* the node accepted at least one of them
AllAttemptsUsed(p) ==
    /\ Returned(p)
    /\ Len(sends[p]) = MAX_RESUBMIT_ATTEMPTS
    /\ \A i \in 1..Len(sends[p]) : ~ReceiptSeen(p, i)
    /\ AcceptedBefore(p, Len(sends[p]) + 1) # {}

\* exactly one PendingTx, with the last accepted hash, was appended to the
\* pending list and execute returned Submitted with that hash
TrackedLastAccepted(p) ==
    LET h == LastAcceptedHashBefore(p, Len(sends[p]) + 1)
    IN /\ result[p] = Submitted(h)
       /\ Len(tracked[p]) = 1
       /\ tracked[p][1].hash = h
       /\ pending_txs = pending_at_call[p] \o tracked[p]

\* C6 as stated: if all MAX_RESUBMIT_ATTEMPTS attempts are used without a
\* receipt being seen and at least one submit was accepted, exactly one
\* PendingTx with the last accepted hash is appended and execute returns
\* Submitted with that hash.
C6_Original ==
    \A p \in Tasks : AllAttemptsUsed(p) => TrackedLastAccepted(p)

\* the last attempt ended the loop through the "nonce too low" or the
\* "insufficient funds" return
LastAttemptReturnedEarly(p) ==
    LET e == sends[p][Len(sends[p])].error
    IN Contains(e, "nonce too low") \/ Contains(e, "insufficient funds")

\* C6 amended: if all MAX_RESUBMIT_ATTEMPTS attempts are used without a
\* receipt being seen, at least one submit was accepted and the last attempt
\* did not fail with "nonce too low" or "insufficient funds", exactly one
\* PendingTx with the last accepted hash is appended and execute returns
\* Submitted with that hash.
C6_ExhaustedTracksLast ==
    \A p \in Tasks :
        (AllAttemptsUsed(p) /\ ~LastAttemptReturnedEarly(p))
            => TrackedLastAccepted(p)

\* attempts 1 and 2 accepted with different hashes and without receipt,
\* attempt 3 a network error: the hash of attempt 2 is tracked
C6_Witness ==
    \E p \in Tasks :
        /\ AllAttemptsUsed(p)
        /\ sends[p][1].hash = "h1"
        /\ sends[p][2].hash = "h2"
        /\ sends[p][3].error = "network error"
        /\ result[p] = Submitted("h2")
        /\ Len(pending_txs) = Len(pending_at_call[p]) + 1

\* ------------------------------------------------------------------- C7

\* at most MAX_RESUBMIT_ATTEMPTS sends, all of the signed bytes, which
\* carry the nonce issued to this execute
SendsBounded ==
    \A p \in Tasks :
        /\ Len(sends[p]) <= MAX_RESUBMIT_ATTEMPTS
        /\ \A i \in 1..Len(sends[p]) :
            /\ sends[p][i].bytes = signed_tx[p]
            /\ sends[p][i].bytes = sends[p][1].bytes
            /\ sends[p][i].bytes.nonce = tx_nonce[p]

\* C7: one execute makes at most MAX_RESUBMIT_ATTEMPTS send_raw calls, all
\* with the identical signed bytes and so the same nonce, and the resubmit
\* loop always ends with a result whatever the node answers.
C7_LoopBoundedAndTerminates ==
    /\ []SendsBounded
    /\ \A p \in Tasks :
        (pc[p] \in {"submit", "receipt"}) ~> (pc[p] = "done" /\ result[p] # NoResult)

\* an execute that used all three attempts and returned
C7_Witness ==
    \E p \in Tasks :
        /\ Len(sends[p]) = MAX_RESUBMIT_ATTEMPTS
        /\ pc[p] = "done"
        /\ \A i \in 1..3 : sends[p][i].bytes.nonce = tx_nonce[p]

\* ------------------------------------------------------------------- C8

\* C8: the first attempt after which a receipt is present ends the loop:
\* status ok gives Confirmed{hash, opportunity.expected_profit}, any other
\* status gives Reverted{hash}; no further submit is made and nothing is
\* added to the pending list.
C8_ReceiptEndsLoop ==
    \A p \in Tasks : \A i \in 1..Len(sends[p]) :
        ReceiptSeen(p, i) =>
            /\ i = Len(sends[p])
            /\ Returned(p)
            /\ result[p] = IF sends[p][i].receipt = "status1"
                           THEN Confirmed(sends[p][i].hash,
                                          opportunity[p].expected_profit)
                           ELSE Reverted(sends[p][i].hash)
            /\ tracked[p] = <<>>
            /\ pending_txs = pending_at_call[p]

\* no receipt on attempts 1 and 2, status ok on attempt 3: Confirmed after
\* exactly three attempts
C8_Witness ==
    \E p \in Tasks :
        /\ Len(sends[p]) = 3
        /\ sends[p][1].receipt = "no_receipt"
        /\ sends[p][2].receipt = "no_receipt"
        /\ sends[p][3].receipt = "status1"
        /\ result[p].tag = "Confirmed"
        /\ attempt[p] = 3

\* ------------------------------------------------------------------- C9

\* the first two submits failed with "network error", the third was
\* accepted and its receipt has status ok
TwoNetworkErrorsThenOk(p) ==
    /\ Len(sends[p]) = 3
    /\ sends[p][1].error = "network error"
    /\ sends[p][2].error = "network error"
    /\ sends[p][3].accepted
    /\ sends[p][3].receipt = "status1"

\* C9: when the first two submits fail with "network error" and the third
\* succeeds with a receipt of status ok, execute returns Confirmed and a
\* resubmit_count of 2 is recorded for the transaction.
C9_ResubmitCountRecorded ==
    \A p \in Tasks :
        TwoNetworkErrorsThenOk(p) =>
            /\ Returned(p)
            /\ result[p].tag = "Confirmed"
            /\ \E i \in 1..Len(pending_txs) :
                /\ pending_txs[i].hash = result[p].hash
                /\ pending_txs[i].resubmit_count = 2

\* ------------------------------------------------------------------ C10

\* C10: a submit error containing "insufficient funds" makes execute return
\* Failed at once: no further submit is made and nothing is added to the
\* pending list.
C10_InsufficientFunds ==
    \A p \in Tasks : \A i \in 1..Len(sends[p]) :
        Contains(sends[p][i].error, "insufficient funds") =>
            /\ i = Len(sends[p])
            /\ Returned(p)
            /\ result[p].tag = "Failed"
            /\ tracked[p] = <<>>
            /\ pending_txs = pending_at_call[p]

\* "insufficient funds" on attempt 2 after an accepted attempt 1
C10_Witness ==
    \E p \in Tasks :
        /\ Len(sends[p]) = 2
        /\ sends[p][1].accepted
        /\ Contains(sends[p][2].error, "insufficient funds")
        /\ result[p].tag = "Failed"
        /\ pc[p] = "done"

\* ------------------------------------------------------------------ C11

\* the execute of task p was turned down before a nonce was issued: the gas
\* price was above max_gas_price, or the simulation was run and failed or
\* found no net profit
RejectedBeforeSubmission(p) ==
    \/ gas_price[p] > max_gas_price
    \/ /\ sim_result[p] # NoSim
       /\ ~sim_result[p].success \/ sim_result[p].net_profit <= 0

\* C11: when execute rejects an opportunity before submission (gas price
\* above max_gas_price, simulation failure, or net profit <= 0) it returns
\* Failed, the nonce counter and the pending list are as they were when it
\* was called, no send_raw call was made, and the dispatch loop can call
\* execute again.
C11_RejectionLeavesNoTrace ==
    \A p \in Tasks :
        RejectedBeforeSubmission(p) =>
            /\ Returned(p)
            /\ result[p].tag = "Failed"
            /\ nonce = nonce_at_call[p]
            /\ pending_txs = pending_at_call[p]
            /\ sends[p] = <<>>
            /\ tx_nonce[p] = -1
            /\ (pc[p] = "idle" /\ p \in callers /\ execs < MaxExecs)
                   => ENABLED Call(p)

\* an execute rejected for its gas price after an earlier execute had
\* advanced the nonce counter and left a PendingTx
C11_Witness ==
    \E p \in Tasks :
        /\ gas_price[p] > max_gas_price
        /\ result[p] = Failed("Gas price too high")
        /\ Len(issued) = 1
        /\ nonce = issued[1].nonce + 1
        /\ Len(pending_txs) = 1

\* ------------------------------------------------------------------ C12

\* check_pending has returned and the checker task has recorded its results
PollDone == tracker_pc = "idle"

\* a PendingTx with hash h is in the pending list
IsPending(h) == \E j \in 1..Len(pending_txs) : pending_txs[j].hash = h

\* the receipt query of entry e of poll_log brought no receipt
NoReceiptObtained(e) == e.outcome \notin {"status1", "status0"}

\* C12: at any tracker poll, a PendingTx for which no receipt is obtained
\* (whatever the outcome of the receipt query other than a present receipt)
\* and whose time since submission exceeds 120 s is removed from the
\* pending list and Failed{stuck} is emitted.
C12_StuckRemoved ==
    PollDone =>
        \A i \in 1..Len(poll_log) :
            ( /\ NoReceiptObtained(poll_log[i])
              /\ poll_log[i].elapsed > STUCK_TX_TIMEOUT_SECS )
            => /\ ~IsPending(poll_log[i].tx.hash)
               /\ Failed("Transaction stuck") \in Range(results)
               /\ Failed("Transaction stuck") \in Range(recorded)

\* ------------------------------------------------------------------ C13

\* the positions of seq that hold a Confirmed or Reverted of hash h
TerminalResults(seq, h) ==
    {k \in 1..Len(seq) :
        seq[k].tag \in {"Confirmed", "Reverted"} /\ seq[k].hash = h}

\* C13: at a tracker poll, for every PendingTx whose receipt is present,
\* check_pending emits exactly one terminal result (Confirmed with the
\* opportunity's expected profit if the status is ok, else Reverted) and
\* removes that PendingTx, so that no later poll reports it again.
C13_ReceiptReportedOnce ==
    /\ PollDone =>
        \A i \in 1..Len(poll_log) :
            LET tx == poll_log[i].tx
            IN ~NoReceiptObtained(poll_log[i]) =>
                /\ \E k \in 1..Len(results) :
                    /\ TerminalResults(results, tx.hash) = {k}
                    /\ results[k] =
                          IF poll_log[i].outcome = "status1"
                          THEN Confirmed(tx.hash, tx.opportunity.expected_profit)
                          ELSE Reverted(tx.hash)
                /\ ~IsPending(tx.hash)
    /\ \A h \in Hashes : Cardinality(TerminalResults(recorded, h)) <= 1

\* a first poll confirmed h1, a later poll found h2 reverted; each is
\* recorded once and the pending list is empty
C13_Witness ==
    /\ PollDone
    /\ Len(poll_log) = 1
    /\ poll_log[1].tx.hash = "h2"
    /\ poll_log[1].outcome = "status0"
    /\ recorded = <<Confirmed("h1", 1000), Reverted("h2")>>
    /\ pending_txs = <<>>

\* ------------------------------------------------------------------ C14

\* no nonce was issued since the last resync_nonce call returned
NoIssueSinceResync == Len(issued) = last_resync.at

\* C14: after resync_nonce succeeds with the chain reporting transaction
\* count c, the nonce counter equals c and the next nonce issued is c; if
\* the chain query fails the counter is unchanged.
C14_ResyncStoresChainCount ==
    /\ last_resync.status = "ok" =>
        /\ NoIssueSinceResync => nonce = last_resync.count
        /\ ~NoIssueSinceResync =>
               issued[last_resync.at + 1].nonce = last_resync.count
    /\ (last_resync.status = "err" /\ NoIssueSinceResync) =>
           nonce = last_resync.before

\* the counter was ahead of the chain (a nonce had been issued), the chain
\* reported 0 and the next nonce issued was 0
C14_Witness ==
    /\ last_resync.status = "ok"
    /\ last_resync.count = 0
    /\ last_resync.before > 0
    /\ last_resync.at = 1
    /\ Len(issued) = 2
    /\ issued[2].nonce = 0

\* ------------------------------------------------------------------ C15

\* the pre-flight check of the execute of task p passes: the dry run
\* reports at least 90% of the expected profit
PreflightPassed(p) ==
    dry_run_profit[p] * 100 >= 90 * opportunity[p].expected_profit

\* C15: within one execute call a nonce is issued only after simulation and
\* pre-flight have passed, and the first send_raw happens only after a
\* nonce was issued and the transaction signed.
C15_StrictOrder ==
    \A p \in Tasks :
        /\ tx_nonce[p] # -1 =>
            /\ sim_result[p].success
            /\ sim_result[p].net_profit > 0
            /\ PreflightPassed(p)
        /\ sends[p] # <<>> =>
            /\ tx_nonce[p] # -1
            /\ signed_tx[p] # NoTx
            /\ sends[p][1].bytes = signed_tx[p]
            /\ sends[p][1].bytes.nonce = tx_nonce[p]

\* ------------------------------------------------------------------ C16

\* the relative change from old_price to new_price is at least 0.5%
ChangeAtLeastThreshold(old_price, new_price) ==
    Abs(new_price - old_price) * PROMOTION_THRESHOLD_DEN
        >= PROMOTION_THRESHOLD_NUM * old_price

\* pool a is in the Lazy tier with a recorded last price, and the quotes
\* given to check_promotions hold a best buy price for its token that
\* differs from the last price by at least 0.5%
LazyPoolMovedAtLeastThreshold(a, token_quotes) ==
    /\ pools[a].tier = Tier3Lazy
    /\ pools[a].last_price # NoneOpt
    /\ token_quotes[pools[a].token_address] # NotFetched
    /\ current_price(token_quotes[pools[a].token_address]) # NoneOpt
    /\ ChangeAtLeastThreshold(
           pools[a].last_price[1],
           current_price(token_quotes[pools[a].token_address])[1])

\* C16: for a pool in the Lazy tier with a recorded last price, a Lazy scan
\* whose best buy quote differs from the last price by a relative change of
\* at least 0.5% (exactly 0.5% included) moves the pool to Tier 1, records
\* Lazy as the tier before the promotion and sets the promotion time.
C16_LazyPromotedAtThreshold ==
    [][LazyCheckPromotions =>
        \A a \in DOMAIN pools :
            LazyPoolMovedAtLeastThreshold(a, sched_log'.quotes) =>
                /\ pools'[a].tier = Tier1Stream
                /\ pools'[a].original_tier = Some(Tier3Lazy)
                /\ pools'[a].promotion_time = Some(0)]_vars

\* ------------------------------------------------------------------ C17

\* pool a is promoted
Promoted(a) == a \in DOMAIN pools /\ pools[a].promotion_time # NoneOpt

\* a demotion cycle sets every pool promoted more than 3600 s ago back to
\* the tier it had before the promotion and clears the promotion metadata
DemotionRestores ==
    DemotionCycle =>
        \A a \in DOMAIN pools :
            (Promoted(a) /\ pools[a].promotion_time[1] > PROMOTION_DURATION_SECS)
            => /\ pools'[a].tier = pools[a].original_tier[1]
               /\ pools'[a].promotion_time = NoneOpt
               /\ pools'[a].original_tier = NoneOpt
               /\ a \in sched_log'.demoted

\* C17: for every promoted pool, once more than 3600 s have passed since
\* the promotion, the next demotion cycle sets its tier back to the tier
\* before the promotion and clears the promotion time and the tier before
\* the promotion; so every promoted pool is eventually demoted.
C17_PromotedEventuallyDemoted ==
    /\ [][DemotionRestores]_vars
    /\ \A a \in Addresses : Promoted(a) ~> ~Promoted(a)

\* a Lazy pool of rank 21 was promoted on a move from 1000 to 1006 and a
\* demotion cycle has put it back
C17_Witness ==
    /\ sched_log.op = "demotion"
    /\ \E a \in sched_log.demoted :
        /\ pools[a].volume_rank = 21
        /\ pools[a].tier = Tier3Lazy
        /\ pools[a].last_price = Some(1006)
        /\ pools[a].promotion_time = NoneOpt
        /\ pools[a].original_tier = NoneOpt

\* ------------------------------------------------------------------ C18

\* pool a has no promotion older than 3600 s
NoExpiredPromotion(a) ==
    \/ pools[a].original_tier = NoneOpt
    \/ pools[a].promotion_time = NoneOpt
    \/ pools[a].promotion_time[1] <= PROMOTION_DURATION_SECS

\* C18: check_demotion is a no-op unless the pool has a promotion older
\* than 3600 s: for a Tier 1 pool that was never promoted and for a pool
\* promoted 3600 s ago or less it returns false and leaves the tier, the
\* promotion time and the tier before the promotion unchanged.
C18_DemotionNoOp ==
    [][DemotionCycle =>
        \A a \in DOMAIN pools :
            NoExpiredPromotion(a) =>
                /\ a \notin sched_log'.demoted
                /\ pools'[a].tier = pools[a].tier
                /\ pools'[a].promotion_time = pools[a].promotion_time
                /\ pools'[a].original_tier = pools[a].original_tier]_vars

\* after a demotion cycle that demoted nothing: a pool promoted exactly
\* 3600 s ago is still promoted, beside a Tier 1 pool that never was
C18_Witness ==
    /\ sched_log.op = "demotion"
    /\ sched_log.demoted = {}
    /\ \E a \in DOMAIN pools :
        /\ pools[a].promotion_time = Some(PROMOTION_DURATION_SECS)
        /\ pools[a].tier = Tier1Stream
    /\ \E a \in DOMAIN pools :
        /\ pools[a].tier = Tier1Stream
        /\ pools[a].original_tier = NoneOpt

\* ------------------------------------------------------------------ C19

\* neither promotion field is set and the tier is that of the volume rank
Unpromoted(pool) ==
    /\ pool.promotion_time = NoneOpt
    /\ pool.original_tier = NoneOpt
    /\ pool.tier = tier_from_rank(pool.volume_rank)

\* both promotion fields are set, the pool is in Tier 1 and the tier before
\* the promotion is that of the volume rank and is not Tier 1
InPromotion(pool) ==
    /\ pool.promotion_time # NoneOpt
    /\ pool.original_tier # NoneOpt
    /\ pool.tier = Tier1Stream
    /\ pool.original_tier = Some(tier_from_rank(pool.volume_rank))
    /\ pool.original_tier # Some(Tier1Stream)

\* C19: in every reachable scheduler state (after any sequence of add_pools
\* with newly created pools, Lazy scans and demotion cycles) each pool is
\* either unpromoted or promoted in the sense above.
C19_PoolWellFormed ==
    \A a \in DOMAIN pools : Unpromoted(pools[a]) \/ InPromotion(pools[a])

\* a Tier 2 pool promoted by a Lazy scan of its token, beside a Tier 1 pool
\* of the same token whose price moved as much
C19_Witness ==
    \E a, b \in DOMAIN pools :
        /\ pools[a].volume_rank = 20
        /\ pools[a].original_tier = Some(Tier2Patrol)
        /\ pools[a].promotion_time = Some(0)
        /\ pools[b].volume_rank = 5
        /\ pools[b].token_address = pools[a].token_address
        /\ pools[b].last_price = pools[a].last_price
        /\ sched_log.op = "check_promotions"

\* ------------------------------------------------------------------ C20

\* C20: a pool created with volume rank r gets tier Stream when 1 <= r <= 5,
\* Patrol when 6 <= r <= 20 and Lazy when r >= 21, with no promotion
\* metadata and no last price.
C20_TierFromRank ==
    new_pool # NoneOpt =>
        LET pool == new_pool[1]
            r == pool.volume_rank
        IN /\ (1 <= r /\ r <= 5) => pool.tier = Tier1Stream
           /\ (6 <= r /\ r <= 20) => pool.tier = Tier2Patrol
           /\ r >= 21 => pool.tier = Tier3Lazy
           /\ pool.last_price = NoneOpt
           /\ pool.promotion_time = NoneOpt
           /\ pool.original_tier = NoneOpt

\* a pool made with the first rank of Tier 3
C20_Witness ==
    /\ new_pool # NoneOpt
    /\ new_pool[1].volume_rank = 21
    /\ new_pool[1].tier = Tier3Lazy
    /\ new_pool[1].last_price = NoneOpt

\* ------------------------------------------------------------------ C21

\* C21: promote_to_tier1 on a pool that is already in Tier 1, be it there by
\* its volume rank or by an earlier promotion, changes nothing: the tier,
\* the tier before the promotion and the promotion time keep their values,
\* so that promoting twice equals promoting once.
C21_PromoteIdempotent ==
    [][LazyCheckPromotions =>
        \A a \in sched_log'.promote_calls :
            pools[a].tier = Tier1Stream =>
                /\ pools'[a].tier = pools[a].tier
                /\ pools'[a].original_tier = pools[a].original_tier
                /\ pools'[a].promotion_time = pools[a].promotion_time]_vars

\* promote_to_tier1 was called on a pool promoted 3600 s before, which is
\* as it was, and on a Lazy pool of the same token, which is promoted now
C21_Witness ==
    /\ sched_log.op = "check_promotions"
    /\ \E a, b \in sched_log.promote_calls :
        /\ pools[a].promotion_time = Some(PROMOTION_DURATION_SECS)
        /\ pools[a].original_tier = Some(Tier3Lazy)
        /\ pools[a].tier = Tier1Stream
        /\ pools[b].promotion_time = Some(0)
        /\ pools[b].token_address = pools[a].token_address

\* ------------------------------------------------------------------ C22

\* the subscription is open and a pool promoted since the snapshot is in
\* Tier 1 without being in the filter
PromotedOutsideSubscription ==
    /\ stream_pc \in {"streaming", "handling"}
    /\ \E a \in StreamAddresses \ Subscribed :
        pools[a].promotion_time # NoneOpt

\* C22: when a promotion or a demotion changes the set of the Tier 1 pools,
\* the Tier 1 task re-opens its subscription on its next iteration, and the
\* subscribed addresses come to be exactly those of the Tier 1 pools. Here:
\* the task does not go back to wait on a subscription that a promotion
\* has made stale.
C22_ReopensAfterPromotion ==
    [][(StreamHandled /\ PromotedOutsideSubscription)
           => stream_pc' # "streaming"]_vars

\* ------------------------------------------------------------------ C23

\* C23: when the log stream of the Tier 1 task ends, the task sleeps 1 s,
\* starts its loop again, takes the Tier 1 pools as they are then and
\* subscribes to exactly those; a failed subscription sends it to a sleep
\* of 5 s and back to the loop; no step ends the task.
C23_StreamEndRestarts ==
    [][/\ stream_pc' # "exited"
       /\ (stream_pc = "streaming" /\ stream_pc' \notin {"streaming", "handling"})
              => (stream_pc' = "sleep_1s" /\ Subscribed' = {})
       /\ (stream_pc = "subscribing"
              /\ stream_pc' \notin {"subscribing", "streaming"})
              => stream_pc' = "sleep_5s"
       /\ (stream_pc \in {"sleep_1s", "sleep_5s"} /\ stream_pc' # stream_pc)
              => stream_pc' = "snapshot"
       /\ (stream_pc = "snapshot" /\ stream_pc' # "snapshot")
              => /\ tier1_pools' = StreamAddresses
                 /\ stream_pc' = IF StreamAddresses = {} THEN "sleep_5s"
                                                         ELSE "subscribing"
       /\ (stream_pc = "subscribing" /\ stream_pc' = "streaming")
              => Subscribed' = tier1_pools]_vars

\* the stream has ended with a promoted pool in Tier 1, and the task waits
\* 1 s before it takes the pools again
C23_Witness ==
    /\ stream_pc = "sleep_1s"
    /\ \E a \in StreamAddresses : pools[a].promotion_time # NoneOpt

\* ------------------------------------------------------------------ C27

\* the smallest integer not below gas_estimate * 1.20
ceil_buffered(gas_estimate) ==
    (gas_estimate * GAS_BUFFER_PERCENT + 99) \div 100

\* C27: the gas limit of every transaction that execute builds is
\* ceil(gas_estimate * 1.20), gas_estimate being the estimate of its
\* simulation.
C27_GasLimitIsCeil ==
    \A p \in Tasks :
        signed_tx[p] # NoTx =>
            signed_tx[p].gas = ceil_buffered(sim_result[p].gas_estimate)

\* ------------------------------------------------------------------ C28

\* the ordered pairs of distinct pools of a list
OrderedPairs(pool_list) ==
    {pair \in (1..Len(pool_list)) \X (1..Len(pool_list)) :
        pair[1] # pair[2]}

\* the trades of the profitable ordered pairs of distinct pools
Candidates(pool_list, answers) ==
    {optimal_for(pool_list[pair[1]], pool_list[pair[2]],
                 answer_for(answers, pair[1], pair[2])) :
        pair \in OrderedPairs(pool_list)} \ {NoneOpt}

\* C28: find_optimal_trade evaluates every ordered pair (buy, sell) of
\* distinct pools of its input: it returns None exactly when no such pair
\* is profitable, and otherwise the trade of one of these pairs whose
\* expected profit no other pair exceeds.
C28_BestOfAllPairs ==
    detector_log.op = "find_optimal_trade" =>
        LET candidates == Candidates(detector_log.pools, NoAnswers)
            trade == detector_log.trade
        IN /\ (trade = NoneOpt) <=> (candidates = {})
           /\ trade # NoneOpt =>
                /\ trade \in candidates
                /\ \A c \in candidates :
                    c[1].expected_profit <= trade[1].expected_profit

\* ------------------------------------------------------------------ C29

\* all pools of the list have the same two reserves and no fee
IdenticalZeroFee(pool_list) ==
    \A i, j \in 1..Len(pool_list) :
        /\ pool_list[i].reserve_x = pool_list[j].reserve_x
        /\ pool_list[i].reserve_y = pool_list[j].reserve_y
        /\ pool_list[i].fee_bps = 0

ArbitrageExists(buy_pool, sell_pool) ==
    QLess(QMul(u256_to_f64(buy_pool.reserve_x), sell_reserves(sell_pool).x),
          QMul(QMul(QMul(u256_to_f64(buy_pool.reserve_y),
                         sell_reserves(sell_pool).y),
                    fee_multiplier(buy_pool)),
               fee_multiplier(sell_pool)))

\* the pair has an arbitrage and an optimal_x of at least the minimum trade
\* size, so that optimal_constant_product goes on to evaluate its profit
EvaluatesProfit(buy_pool, sell_pool) ==
    /\ ArbitrageExists(buy_pool, sell_pool)
    /\ ~QLess(cp_optimal_x(buy_pool, sell_pool), QInt(MIN_TRADE_SIZE_WEI))

\* the derivative at x of the profit that cp_profit evaluates:
\* d(eth_received)/d(lst_bought) * d(lst_bought)/dx - 1
cp_profit_derivative(buy_pool, sell_pool, x) ==
    LET buy_x == u256_to_f64(buy_pool.reserve_x)
        buy_y == u256_to_f64(buy_pool.reserve_y)
        sell_x == sell_reserves(sell_pool).x
        sell_y == sell_reserves(sell_pool).y
        buy_fee == fee_multiplier(buy_pool)
        sell_fee == fee_multiplier(sell_pool)
        buy_den == QAdd(buy_x, QMul(buy_fee, x))
        lst_bought == QDiv(QMul(QMul(buy_fee, buy_y), x), buy_den)
        sell_den == QAdd(sell_x, lst_bought)
        d_lst == QDiv(QMul(QMul(buy_fee, buy_y), buy_x),
                      QMul(buy_den, buy_den))
        d_eth == QDiv(QMul(QMul(sell_fee, sell_y), sell_x),
                      QMul(sell_den, sell_den))
    IN QSub(QMul(d_eth, d_lst), QInt(1))

\* |a| <= 1e-6
WithinTolerance(a) == Abs(a.n) <= a.d \div 1000000

\* C30: for every pair of constant-product pools with
\* buy_y * sell_y * buy_fee * sell_fee > buy_x * sell_x, the closed-form
\* optimal_x has a strictly positive profit and is a stationary point of
\* the profit that optimal_constant_product evaluates: the derivative of
\* that profit at optimal_x is 0 within 1e-6. Checked on the pairs whose
\* optimal_x reaches the minimum trade size.
C30_ClosedFormStationary ==
    detector_log.op = "find_optimal_trade" =>
        \A pair \in OrderedPairs(detector_log.pools) :
            LET buy_pool == detector_log.pools[pair[1]]
                sell_pool == detector_log.pools[pair[2]]
                optimal_x == cp_optimal_x(buy_pool, sell_pool)
            IN EvaluatesProfit(buy_pool, sell_pool) =>
                /\ cp_profit(buy_pool, sell_pool, optimal_x).n > 0
                /\ WithinTolerance(
                       cp_profit_derivative(buy_pool, sell_pool, optimal_x))

\* the same with no fee in either pool
C30_ZeroFeeStationary ==
    detector_log.op = "find_optimal_trade" =>
        \A pair \in OrderedPairs(detector_log.pools) :
            LET buy_pool == detector_log.pools[pair[1]]
                sell_pool == detector_log.pools[pair[2]]
                optimal_x == cp_optimal_x(buy_pool, sell_pool)
            IN (/\ EvaluatesProfit(buy_pool, sell_pool)
                /\ buy_pool.fee_bps = 0 /\ sell_pool.fee_bps = 0) =>
                /\ cp_profit(buy_pool, sell_pool, optimal_x).n > 0
                /\ cp_profit_derivative(buy_pool, sell_pool, optimal_x).n = 0

\* the strictly positive profit alone
C30_PositiveProfit ==
    detector_log.op = "find_optimal_trade" =>
        \A pair \in OrderedPairs(detector_log.pools) :
            LET buy_pool == detector_log.pools[pair[1]]
                sell_pool == detector_log.pools[pair[2]]
            IN EvaluatesProfit(buy_pool, sell_pool) =>
                cp_profit(buy_pool, sell_pool,
                          cp_optimal_x(buy_pool, sell_pool)).n > 0

\* C28 for lists of pools of different venues
C28_DistinctVenues ==
    (/\ detector_log.op = "find_optimal_trade"
     /\ \A pair \in OrderedPairs(detector_log.pools) :
         detector_log.pools[pair[1]].venue # detector_log.pools[pair[2]].venue)
        => C28_BestOfAllPairs

\* ------------------------------------------------------------------- C26

\* the input of a clamped call is the whole part of min(x*, 0.9 vault)
InputIsClamp(input, optimal, vault_balance) ==
    /\ input <= optimal
    /\ input * 100 <= vault_balance * MAX_LIQUIDITY_PERCENT
    /\ \/ input = optimal
       \/ vault_balance * MAX_LIQUIDITY_PERCENT - input * 100 < 100

\* the input of a clamped call is min(x*, 0.9 vault) with no rounding
InputIsExactClamp(input, optimal, vault_balance) ==
    /\ input <= optimal
    /\ input * 100 <= vault_balance * MAX_LIQUIDITY_PERCENT
    /\ \/ input = optimal
       \/ input * 100 = vault_balance * MAX_LIQUIDITY_PERCENT

\* a call of find_optimal_trade_clamped that found a trade and got the
\* balance of the vault
ClampedCall ==
    /\ detector_log.op = "find_optimal_trade_clamped"
    /\ detector_log.optimal # NoneOpt
    /\ detector_log.vault.ok

\* C26: the liquidity clamp returns the whole part of min(x*, 0.9 vault);
\* when that is below x* the profit is the whole part of
\* profit* x_clamped / x* and the venues are those of the optimal trade;
\* when it is not below x* the trade is returned unchanged; without a
\* trade the result is Ok(None) and without the vault balance it is Err
C26_ClampScalesProfit ==
    /\ detector_log.op = "clamp_to_liquidity" =>
        InputIsClamp(detector_log.clamped, detector_log.optimal,
                     detector_log.vault_balance)
    /\ detector_log.op = "find_optimal_trade_clamped" =>
        /\ detector_log.optimal = NoneOpt =>
               detector_log.result = Ok(NoneOpt)
        /\ detector_log.optimal # NoneOpt /\ ~detector_log.vault.ok =>
               detector_log.result = Err
    /\ ClampedCall =>
        /\ detector_log.result.ok
        /\ detector_log.result.value[1] # NoneOpt
        /\ LET optimal == detector_log.optimal[1]
               returned == detector_log.result.value[1][1]
           IN /\ InputIsClamp(returned.optimal_input, optimal.optimal_input,
                              detector_log.vault.value[1])
              /\ returned.optimal_input = optimal.optimal_input =>
                     returned = optimal
              /\ returned.optimal_input < optimal.optimal_input =>
                  /\ returned.expected_profit * optimal.optimal_input
                         <= optimal.expected_profit * returned.optimal_input
                  /\ optimal.expected_profit * returned.optimal_input
                         < (returned.expected_profit + 1)
                               * optimal.optimal_input
                  /\ returned.buy_venue = optimal.buy_venue
                  /\ returned.sell_venue = optimal.sell_venue
                  /\ returned.iterations = optimal.iterations

\* C26 as the specification states it: the input is min(x*, 0.9 vault) and
\* the profit of a clamped trade is profit* x_clamped / x*, both exactly
C26_ExactClamp ==
    /\ detector_log.op = "clamp_to_liquidity" =>
        InputIsExactClamp(detector_log.clamped, detector_log.optimal,
                          detector_log.vault_balance)
    /\ ClampedCall =>
        LET optimal == detector_log.optimal[1]
            returned == detector_log.result.value[1][1]
        IN /\ InputIsExactClamp(returned.optimal_input,
                                optimal.optimal_input,
                                detector_log.vault.value[1])
           /\ returned.optimal_input < optimal.optimal_input =>
                  returned.expected_profit * optimal.optimal_input
                      = optimal.expected_profit * returned.optimal_input

\* a trade was clamped to a positive input and kept a positive profit
C26_Witness ==
    /\ ClampedCall
    /\ LET optimal == detector_log.optimal[1]
           returned == detector_log.result.value[1][1]
       IN /\ 0 < returned.optimal_input
          /\ returned.optimal_input < optimal.optimal_input
          /\ 0 < returned.expected_profit
          /\ returned.expected_profit < optimal.expected_profit

\* the example of the test: 100 against a vault of 50 gives 45
C26_TestExample ==
    /\ detector_log.op = "clamp_to_liquidity"
    /\ detector_log.optimal = 100000
    /\ detector_log.vault_balance = 50000
    => detector_log.clamped = 45000

\* a trade went through the clamp unchanged
C26_UnclampedWitness ==
    /\ ClampedCall
    /\ detector_log.result.value[1] = detector_log.optimal

\* ------------------------------------------------------------------- C24

\* the opportunities that a call of detect_optimal returned
Emitted ==
    IF detector_log.op = "detect_optimal"
    THEN {detector_log.opportunities[i] :
             i \in 1..Len(detector_log.opportunities)}
    ELSE {}

\* C24: every Opportunity emitted by detect_optimal has
\* trade_amount >= MIN_TRADE_SIZE, for every vault reserve used by the clamp
C24_TradeAmountAtLeastMin ==
    \A opp \in Emitted : opp.trade_amount >= MIN_TRADE_SIZE_WEI

\* what holds of the trade amount: it is within 90% of the vault reserve
C24_TradeAmountWithinVault ==
    detector_log.op = "detect_optimal" =>
        \A k \in 1..Len(detector_log.scans) :
            \A opp \in Emitted :
                opp.token = detector_log.scans[k].tq.token =>
                    /\ detector_log.scans[k].vault.ok
                    /\ opp.trade_amount * 100
                           <= detector_log.scans[k].vault.value[1]
                                  * MAX_LIQUIDITY_PERCENT

\* ------------------------------------------------------------------- C25

\* C25: every Opportunity emitted by detect_optimal has
\* spread_bps >= min_spread_bps, expected_profit >= min_profit and
\* buy_venue # sell_venue, for every list of quote sets
C25_EmittedPassFloors ==
    \A opp \in Emitted :
        /\ opp.spread_bps >= detector_log.detector.min_spread_bps
        /\ opp.expected_profit >= detector_log.detector.min_profit
        /\ opp.buy_venue # opp.sell_venue

\* of two tokens with a trade, one was emitted and the other was held back
\* by a floor
C25_Witness ==
    /\ detector_log.op = "detect_optimal"
    /\ Len(detector_log.scans) = 2
    /\ Len(detector_log.opportunities) = 1
    /\ \A k \in 1..2 :
           find_optimal_opportunity(detector_log.scans[k].tq,
                                    detector_log.scans[k].answers,
                                    detector_log.scans[k].vault) # NoneOpt

\* the emitted opportunities are in descending order of expected_profit
C25_SortedByProfit ==
    detector_log.op = "detect_optimal" =>
        \A i \in 1..Len(detector_log.opportunities) :
            \A j \in i..Len(detector_log.opportunities) :
                detector_log.opportunities[i].expected_profit
                    >= detector_log.opportunities[j].expected_profit

\* ------------------------------------------------------------------- C31

\* a receipt query of check_pending is in flight
QueryInFlight ==
    /\ tracker_pc = "query"
    /\ poll_index <= Len(pending_txs)

\* task p is in execute and has a transaction hash it did not track yet
WantsToTrack(p) ==
    /\ p \in callers
    /\ \E h \in Hashes : \A i \in 1..Len(tracked[p]) : tracked[p][i].hash # h

\* C31: the pending-list lock is not held while a receipt query of the
\* tracker is in flight, so an execute that wants to add a PendingTx at
\* that moment is granted the write lock
C31_TrackNotBlockedByQuery ==
    QueryInFlight =>
        \A p \in Tasks : WantsToTrack(p) => ENABLED TrackPending(p)

\* outside a receipt query track_pending is not held up
C31_TrackFreeOutsideQuery ==
    tracker_pc # "query" =>
        \A p \in Tasks : WantsToTrack(p) => ENABLED TrackPending(p)

\* ------------------------------------------------------------------- C32

\* how often an address occurs in a token list
Occurrences(token_list, address) ==
    Cardinality({i \in 1..Len(token_list) : token_list[i].address = address})

\* task p runs the body of add_token in this step
AddTokenBody(p) ==
    /\ rc_pc[p].op = "add_token"
    /\ WriteBody(p)

\* no address occurs more often than add_token can account for: once, or
\* as often as in the list RuntimeConfig::new was given
AddedOnce ==
    \A a \in RcAddresses :
        \/ Occurrences(rc_tokens, a) <= 1
        \/ Occurrences(rc_tokens, a) <= Occurrences(rc_initial, a)

\* C32: add_token with an address already present leaves the token list
\* unchanged, and with an absent address it appends the token; so after any
\* sequence of add_token and remove_token calls no address was added twice
C32_AddTokenIdempotent ==
    /\ []AddedOnce
    /\ [][\A p \in RcTasks : AddTokenBody(p) =>
            IF Occurrences(rc_tokens, rc_pc[p].arg.address) > 0
            THEN rc_tokens' = rc_tokens
            ELSE rc_tokens' = Append(rc_tokens, rc_pc[p].arg)]_vars

\* add_token was called with a token of another name whose address is in
\* the list, and its body has left the list as it was
C32_Witness ==
    \E p \in RcTasks :
        /\ rc_pc[p].op = "add_token"
        /\ rc_pc[p].at = "unlock"
        /\ Occurrences(rc_committed, rc_pc[p].arg.address) = 1
        /\ \A i \in 1..Len(rc_committed) : rc_committed[i] # rc_pc[p].arg
        /\ rc_tokens = rc_committed

\* remove_token removes every token of the address and no other
C32_RemoveByAddress ==
    [][\A p \in RcTasks :
          (rc_pc[p].op = "remove_token" /\ WriteBody(p)) =>
              /\ Occurrences(rc_tokens', rc_pc[p].arg) = 0
              /\ \A a \in RcAddresses \ {rc_pc[p].arg} :
                     Occurrences(rc_tokens', a) = Occurrences(rc_tokens, a)]_vars

\* ------------------------------------------------------------------- C33

\* task p holds the write lock and has changed the list
MidWrite(p) ==
    /\ rc_lock.writer = p
    /\ rc_tokens # rc_committed

\* C33: every snapshot that get_tokens returns is the complete list as the
\* last finished write (or RuntimeConfig::new) left it, never the list of a
\* write in progress, and a snapshot that was returned is changed by no
\* write: it changes only when get_tokens returns the next one
C33_SnapshotIsCommittedList ==
    /\ [][\A p \in RcTasks : GetTokensReturn(p) =>
            rc_snapshot' = Some([task |-> p, value |-> rc_committed])]_vars
    /\ [][rc_snapshot' # rc_snapshot =>
            \E p \in RcTasks : GetTokensReturn(p)]_vars
    /\ [](\A p \in RcTasks : MidWrite(p) => rc_lock.readers = {})

\* a snapshot was returned to one task and a write of the other task that
\* finished later left another list
C33_Witness ==
    /\ rc_snapshot # NoneOpt
    /\ rc_lock.writer = 0
    /\ rc_tokens = rc_committed
    /\ rc_snapshot[1].value # rc_committed
    /\ rc_snapshot[1].value # rc_initial

\* a reader waits: a write that changed the list is in progress and the
\* other task is outside every method
C33_ReaderHeldBack ==
    \E p \in RcTasks :
        /\ MidWrite(p)
        /\ \E q \in RcTasks \ {p} : rc_pc[q] = RcIdle /\ ~ENABLED GetTokensLock(q)

\* ------------------------------------------------------------------ C34

\* the hashes of the PendingTx in the pending list
PendingHashes == {pending_txs[i].hash : i \in 1..Len(pending_txs)}

\* the error message of the last send of task p's execute, None when that
\* send was accepted or nothing was sent
LastSendError(p) ==
    IF sends[p] = <<>> THEN None ELSE sends[p][Len(sends[p])].error

\* C34: whenever execute returns Submitted{hash}, the pending list holds a
\* PendingTx with that hash at that moment, so that the pending-TX checker
\* later finds the transaction and emits its terminal result.
C34_SubmittedIsPending ==
    \A p \in Tasks :
        (pc[p] = "done" /\ result[p].tag = "Submitted")
            => result[p].hash \in PendingHashes

\* what the code does keep: a Submitted that is returned on any way other
\* than the "nonce too low" arm has its PendingTx in the list
C34_PendingUnlessNonceTooLow ==
    \A p \in Tasks :
        (/\ pc[p] = "done"
         /\ result[p].tag = "Submitted"
         /\ ~Contains(LastSendError(p), "nonce too low"))
            => result[p].hash \in PendingHashes

\* ------------------------------------------------------------------ C35

\* the node accepted a send of task p's current execute
Accepted(p) == last_hash[p] # None

\* task p's current execute took its nonce before task q's did
IssuedBefore(p, q) ==
    /\ tx_nonce[p] >= 0
    /\ tx_nonce[q] >= 0
    /\ IssueIndex(p) < IssueIndex(q)

\* C35: with execute calls running concurrently on one Executor and no
\* resync, a nonce carried by a transaction that the node accepted is never
\* issued again to another execute, also when a concurrent execute fails and
\* decrements the counter.
C35_AcceptedNonceNotReissued ==
    \A p, q \in Tasks :
        (p # q /\ IssuedBefore(p, q) /\ Accepted(p))
            => tx_nonce[q] # tx_nonce[p]

\* what the code does keep: a nonce is issued twice only after a fetch_sub
C35_ReissueNeedsDecrement ==
    \A i, j \in 1..Len(issued) :
        (i < j /\ issued[i].nonce = issued[j].nonce)
            => \E k \in 1..Len(issued) : issued[k].decremented

\* ------------------------------------------------------------------ C36

\* task p is inside record_execution
InRecordExecution(p) == monitor_pc[p] # MonIdle

\* task p is not inside a method of the monitor and holds no guard
MonitorReturned(p) == monitor_pc[p] = MonIdle /\ stats_lock.writer # p

\* C36: record_execution eventually returns and releases the stats lock
\* for every ExecutionResult variant, so that later calls of the monitor by
\* the dispatcher and the pending tracker are not blocked forever.
C36_RecordExecutionReturns ==
    \A p \in MonitorTasks : InRecordExecution(p) ~> MonitorReturned(p)

\* what the code does keep: for every variant but Reverted record_execution
\* returns with the lock released
C36_ReturnsUnlessReverted ==
    \A p \in MonitorTasks :
        (InRecordExecution(p) /\ monitor_pc[p].arg.tag # "Reverted")
            ~> MonitorReturned(p)

\* the Reverted arm never gets past its second `write().await`
C36_RevertedNeverCounted == stats.txs_reverted = 0

\* ------------------------------------------------------------------ C37

\* the addresses of the pools whose tier the step changes
TierChanged == {a \in DOMAIN pools : pools'[a].tier # pools[a].tier}

\* C37: the promotion check of a Lazy scan changes the tier only of pools
\* that are in the Lazy tier at that moment; a pool in Patrol is never moved
\* to Stream by check_promotions, also when it shares its token address with
\* a Lazy pool.
C37_PromotionOnlyOfLazyPools ==
    [][LazyCheckPromotions
          => \A a \in TierChanged : pools[a].tier = Tier3Lazy]_vars

\* what the code does keep: check_promotions changes the tier only of pools
\* whose token is among the tokens of the Lazy pools of this scan, and only
\* to Tier 1
C37_PromotionOnlyOfScannedTokens ==
    [][LazyCheckPromotions
          => \A a \in TierChanged :
                /\ pools[a].token_address \in tier3_tokens
                /\ pools'[a].tier = Tier1Stream]_vars

\* ------------------------------------------------------------------ C38

\* in the current poll check_pending saw a receipt for tx, or saw none and
\* the stuck timeout had elapsed
PolledComplete(tx) ==
    \E k \in 1..Len(poll_log) :
        /\ poll_log[k].tx = tx
        /\ \/ poll_log[k].outcome \in {"status1", "status0"}
           \/ /\ poll_log[k].outcome = "no_receipt"
              /\ poll_log[k].elapsed > STUCK_TX_TIMEOUT_SECS

\* the entries of the pending list that the read phase of the current poll
\* did not see: appended after its loop had ended
AppendedAfterReadPhase(txs) ==
    {tx \in Range(txs) : \A k \in 1..Len(poll_log) : poll_log[k].tx # tx}

\* C38: check_pending removes from the pending list only the entries for
\* which, in that same poll, a receipt was observed or the stuck timeout had
\* elapsed; an entry appended by a concurrent execute between the read phase
\* and the removal phase, and every entry still pending, stays in the list,
\* in its place.
C38_RemovesOnlyPolledComplete ==
    [][/\ Retain
          => pending_txs' =
                 SelectSeq(pending_txs, LAMBDA tx : ~PolledComplete(tx))
       /\ (PollStart \/ QueryReceipt \/ EndQuery) => UNCHANGED pending_txs]_vars

\* a poll has removed a completed entry, and the list it left holds an entry
\* that was appended between its read phase and its removal phase
C38_Witness ==
    /\ tracker_pc = "idle"
    /\ completed_hashes # <<>>
    /\ AppendedAfterReadPhase(retained) # {}

\* a poll has removed a completed entry, and the list it left holds an entry
\* that it had polled and found still pending
C38_PendingKept ==
    /\ tracker_pc = "idle"
    /\ completed_hashes # <<>>
    /\ Range(retained) \ AppendedAfterReadPhase(retained) # {}

\* ------------------------------------------------------------------ C39

\* both venues are handed to the constant-product closed form
BothConstantProduct(buy_venue, sell_venue) ==
    /\ buy_venue \in ConstantProductVenues
    /\ sell_venue \in ConstantProductVenues

\* C39: for the PoolParams that the detector derives from quotes (both
\* reserves of a pool are 100 times its quote amount, the fee is not
\* negative) the numerator of the constant-product closed form is <= 0 for
\* every pair of pools, so optimal_constant_product returns no trade and
\* detect_optimal never emits an opportunity whose buy and sell venues are
\* both constant-product.
C39_ClosedFormNeverTrades ==
    /\ detector_log.op = "optimal_constant_product"
           => /\ detector_log.numerator.n <= 0
              /\ detector_log.trade = NoneOpt
    /\ \A opp \in Emitted : ~BothConstantProduct(opp.buy_venue, opp.sell_venue)

\* the closed form was applied to a Uniswap V3 pool and a Balancer pool of
\* different sizes, and its numerator was negative
C39_Witness ==
    /\ detector_log.op = "optimal_constant_product"
    /\ detector_log.buy_pool.venue = UniswapV3
    /\ detector_log.sell_pool.venue = Balancer
    /\ detector_log.buy_pool.reserve_x > detector_log.sell_pool.reserve_x
    /\ detector_log.numerator.n < 0

\* the detector scanned a token quoted by two constant-product venues and
\* emitted nothing for it
C39_ScannedConstantProductPair ==
    /\ detector_log.op = "detect_optimal"
    /\ \E k \in 1..Len(detector_log.scans) :
           LET tq == detector_log.scans[k].tq
           IN /\ Len(tq.quotes) = 2
              /\ BothConstantProduct(tq.quotes[1].venue, tq.quotes[2].venue)
              /\ \A opp \in Emitted : opp.token # tq.token
    /\ Emitted # {}

\* ------------------------------------------------------------------ C40

\* the step is a probe of health_check that failed or timed out
ProbeFailed ==
    /\ HealthCheckEndpoint
    /\ rpc_log'.op = "probe"
    /\ ~rpc_log'.answer.ok

\* the step is a probe of url u that succeeded with a latency below
\* max_latency_ms
GoodProbe(u) ==
    /\ HealthCheckEndpoint
    /\ rpc_log'.op = "probe"
    /\ rpc_log'.url = u
    /\ rpc_log'.answer.ok
    /\ rpc_log'.answer.latency < max_latency_ms

\* the step makes an unhealthy endpoint u healthy
BecomesHealthy(u) ==
    /\ u \in DOMAIN rpc_health
    /\ ~rpc_health[u].is_healthy
    /\ rpc_health'[u].is_healthy

\* C40: in health_check a failed or timed-out probe never changes the
\* is_healthy flag of an endpoint from false to true; an endpoint that is
\* unhealthy stays unhealthy until a probe succeeds with a latency below
\* max_latency_ms.
C40_UnhealthyUntilGoodProbe ==
    [][/\ ProbeFailed => \A u \in Range(endpoints) : ~BecomesHealthy(u)
       /\ \A u \in Range(endpoints) : BecomesHealthy(u) => GoodProbe(u)]_vars

\* what the code does keep: after a failed probe the endpoint is healthy
\* exactly when it has failed fewer than three times in a row, and no
\* step but a probe of the url changes its flag
C40_HealthyBelowThreeFailures ==
    [][/\ ProbeFailed
          => (rpc_health'[rpc_log'.url].is_healthy
                 <=> rpc_health'[rpc_log'.url].consecutive_failures < 3)
       /\ \A u \in Range(endpoints) :
             BecomesHealthy(u)
                 => /\ HealthCheckEndpoint
                    /\ rpc_log'.op = "probe"
                    /\ rpc_log'.url = u]_vars

====
